---- MODULE Spec2Model ----
(***************************************************************************)
(* Resume relevance checker: the semantic matching pipeline.               *)
(*                                                                         *)
(* The embedding provider (embedding_service.py), the match orchestrator   *)
(* (semantic_search.py), the vector index adapter (vector_store.py), the   *)
(* relational store (database.py) and the request handlers that drive them *)
(* (backend.py, rerun_analysis.py).                                        *)
(*                                                                         *)
(* Python strings are sequences of one-character strings.  Floats are      *)
(* fixed-point integers: a similarity is counted in millionths, a          *)
(* relevance in hundredths of a percentage point.                          *)
(***************************************************************************)
EXTENDS Integers, Sequences, FiniteSets, TLC

-----------------------------------------------------------------------------
(* Python str methods                                                      *)

\* A text argument that is None (a NULL content column).
NoneText == <<"None">>

Whitespace == {" ", "\n", "\t"}

LowerLetters == <<"a","b","c","d","e","f","g","h","i","j","k","l","m","n","o","p","q","r","s","t","u","v","w","x","y","z">>
UpperLetters == <<"A","B","C","D","E","F","G","H","I","J","K","L","M","N","O","P","Q","R","S","T","U","V","W","X","Y","Z">>
OtherChars == <<" ", "\n", "\t", ".", ",", "-">>
Chars == LowerLetters \o UpperLetters \o OtherChars

IsUpper(c) == \E i \in 1..Len(UpperLetters) : UpperLetters[i] = c
IsLowerCh(c) == \E i \in 1..Len(LowerLetters) : LowerLetters[i] = c

\* ord(c), up to a renumbering of the characters
Ord(c) == CHOOSE i \in 1..Len(Chars) : Chars[i] = c

LowerChar(c) ==
    IF IsUpper(c)
    THEN LowerLetters[CHOOSE i \in 1..Len(UpperLetters) : UpperLetters[i] = c]
    ELSE c

\* s.lower()
lower(s) == [i \in 1..Len(s) |-> LowerChar(s[i])]

\* s.isalpha()
isalpha(s) == s # <<>> /\ \A i \in 1..Len(s) : IsUpper(s[i]) \/ IsLowerCh(s[i])

RECURSIVE lstrip(_)
lstrip(s) == IF s # <<>> /\ Head(s) \in Whitespace THEN lstrip(Tail(s)) ELSE s

RECURSIVE rstrip(_)
rstrip(s) ==
    IF s # <<>> /\ s[Len(s)] \in Whitespace
    THEN rstrip(SubSeq(s, 1, Len(s) - 1))
    ELSE s

\* s.strip()
strip(s) == rstrip(lstrip(s))

\* the k-th smallest element of a set of positions
Nth(P, k) == CHOOSE p \in P : Cardinality({q \in P : q < p}) = k - 1

RECURSIVE WordStarts(_, _, _)
\* the positions in lo..hi where a word of s starts, in order, by halves
WordStarts(s, lo, hi) ==
    IF lo > hi THEN <<>>
    ELSE IF lo = hi
         THEN IF s[lo] \notin Whitespace /\ (lo = 1 \/ s[lo - 1] \in Whitespace)
              THEN <<lo>> ELSE <<>>
         ELSE LET mid == (lo + hi) \div 2
              IN  WordStarts(s, lo, mid) \o WordStarts(s, mid + 1, hi)

RECURSIVE WordEnds(_, _, _)
\* the positions in lo..hi where a word of s ends
WordEnds(s, lo, hi) ==
    IF lo > hi THEN <<>>
    ELSE IF lo = hi
         THEN IF s[lo] \notin Whitespace /\ (lo = Len(s) \/ s[lo + 1] \in Whitespace)
              THEN <<lo>> ELSE <<>>
         ELSE LET mid == (lo + hi) \div 2
              IN  WordEnds(s, lo, mid) \o WordEnds(s, mid + 1, hi)

\* s.split(): the words between runs of whitespace
split(s) ==
    LET starts == WordStarts(s, 1, Len(s))
        ends == WordEnds(s, 1, Len(s))
    IN  [k \in 1..Len(starts) |-> SubSeq(s, starts[k], ends[k])]

\* s.split(sep) for a one-character separator: empty pieces are kept
split_on(s, sep) ==
    LET at == {i \in 1..Len(s) : s[i] = sep}
        n == Cardinality(at)
    IN  [k \in 1..(n + 1) |->
            SubSeq(s, IF k = 1 THEN 1 ELSE Nth(at, k - 1) + 1,
                      IF k = n + 1 THEN Len(s) ELSE Nth(at, k) - 1)]

RECURSIVE join(_, _)
\* sep.join(words), by halves
join(sep, words) ==
    IF words = <<>> THEN <<>>
    ELSE IF Len(words) = 1 THEN words[1]
    ELSE LET half == Len(words) \div 2
         IN  join(sep, SubSeq(words, 1, half)) \o <<sep>>
             \o join(sep, SubSeq(words, half + 1, Len(words)))

\* sub in s
contains(s, sub) ==
    \E i \in 0..(Len(s) - Len(sub)) : SubSeq(s, i + 1, i + Len(sub)) = sub

\* xs[:n]
Take(xs, n) == SubSeq(xs, 1, IF Len(xs) < n THEN Len(xs) ELSE n)

Range(xs) == {xs[i] : i \in 1..Len(xs)}

-----------------------------------------------------------------------------
(* config.py: the model catalog                                            *)

\* None as a model key, a loaded model or an exception slot
None == "None"

EMBEDDING_MODELS ==
    [fast |-> [name |-> "all-MiniLM-L6-v2", dimensions |-> 384],
     balanced |-> [name |-> "all-mpnet-base-v2", dimensions |-> 768],
     high_quality |-> [name |-> "sentence-transformers/all-roberta-large-v1",
                       dimensions |-> 1024],
     multilingual |-> [name |-> "sentence-transformers/paraphrase-multilingual-MiniLM-L12-v2",
                       dimensions |-> 384]]

\* list(EMBEDDING_MODELS.keys()), in the dict's insertion order
EmbeddingModelKeys == <<"fast", "balanced", "high_quality", "multilingual">>

ModelNames == {EMBEDDING_MODELS[k].name : k \in DOMAIN EMBEDDING_MODELS}

RECURSIVE ReprList(_)
\* the items of str(list_of_str): each key between quotes
ReprList(keys) ==
    IF keys = <<>> THEN <<>>
    ELSE <<"'", Head(keys), "'">> \o ReprList(Tail(keys))

\* get_embedding_model_config with the key missing from the message
get_embedding_model_config_nokey(model_key, default) ==
    LET key == IF model_key = None THEN default ELSE model_key
    IN  IF key \notin DOMAIN EMBEDDING_MODELS
        THEN [raised |-> TRUE, type |-> "ValueError",
              message |-> <<"Unknown model key. Available: ", "[">>
                          \o ReprList(EmbeddingModelKeys) \o <<"]">>]
        ELSE [raised |-> FALSE, value |-> EMBEDDING_MODELS[key]]

\* get_embedding_model_config(model_key) under DEFAULT_EMBEDDING_MODEL = default.
\* The f-string message is the sequence of its pieces.
get_embedding_model_config(model_key, default) ==
    LET key == IF model_key = None THEN default ELSE model_key
    IN  IF key \notin DOMAIN EMBEDDING_MODELS
        THEN [raised |-> TRUE, type |-> "ValueError",
              message |-> <<"Unknown model key: ", key, ". Available: ", "[">>
                          \o ReprList(EmbeddingModelKeys) \o <<"]">>]
        ELSE [raised |-> FALSE, value |-> EMBEDDING_MODELS[key]]

-----------------------------------------------------------------------------
(* Vectors and the pretrained encoder                                      *)
(*                                                                         *)
(* A vector of a model's dimension is held as that dimension and two       *)
(* integer coordinates of the plane it lies in.                            *)

\* np.zeros(dim); `by` names the model whose encode produced a vector (None here)
np_zeros(dim) == [dim |-> dim, x |-> 0, y |-> 0, by |-> "None"]

\* directions the encoder produces; every norm is an integer
VecTable ==
    << <<3, 4>>, <<-4, -3>>, <<4, 3>>, <<5, 12>>, <<-3, 4>>, <<12, 5>>, <<-12, -5>>,
       <<3, -4>>, <<-5, 12>> >>

RECURSIVE TextHash(_, _)
\* the sum of ord(s[k]) * (i + k), k from 0, modulo 1009, by halves
TextHash(s, i) ==
    IF s = <<>> THEN 0
    ELSE IF Len(s) = 1 THEN (Ord(s[1]) * i) % 1009
    ELSE LET half == Len(s) \div 2
         IN  (TextHash(SubSeq(s, 1, half), i)
              + TextHash(SubSeq(s, half + 1, Len(s)), i + half)) % 1009

\* model.get_sentence_embedding_dimension() of the loaded model `name`
ModelDimension(name) ==
    LET k == CHOOSE k \in DOMAIN EMBEDDING_MODELS : EMBEDDING_MODELS[k].name = name
    IN  EMBEDDING_MODELS[k].dimensions

ModelSalt(name) ==
    CHOOSE i \in 1..Len(EmbeddingModelKeys) :
        EMBEDDING_MODELS[EmbeddingModelKeys[i]].name = name

\* SentenceTransformer(name).encode(text): a fixed function of the model and the
\* text; `weights` selects which one the pretrained weights realise.
Encode(name, text, weights) ==
    LET i == ((TextHash(text, 1) + 2 * ModelSalt(name) + weights) % Len(VecTable)) + 1
    IN  [dim |-> ModelDimension(name), x |-> VecTable[i][1], y |-> VecTable[i][2],
         by |-> name]

\* np.linalg.norm
Norm(v) ==
    LET sq == v.x * v.x + v.y * v.y
    IN  CHOOSE n \in 0..13 : n * n <= sq /\ (n + 1) * (n + 1) > sq

\* a similarity of 1.0, in millionths
SimUnit == 1000 * 1000

Min(a, b) == IF a < b THEN a ELSE b
Max(a, b) == IF a > b THEN a ELSE b

\* calculate_similarity without the test for a zero norm: numpy divides by zero
\* to nan, and max(0.0, min(1.0, nan)) is 1.0
calculate_similarity_nozero(embedding1, embedding2) ==
    LET norm1 == Norm(embedding1)
        norm2 == Norm(embedding2)
    IN  IF embedding1.dim # embedding2.dim THEN 0
        ELSE IF norm1 = 0 \/ norm2 = 0 THEN SimUnit
        ELSE LET dot == embedding1.x * embedding2.x + embedding1.y * embedding2.y
                 similarity == (dot * SimUnit) \div (norm1 * norm2)
             IN  Max(0, Min(SimUnit, (similarity + SimUnit) \div 2))

\* calculate_similarity with the cosine clamped but not rescaled
calculate_similarity_unscaled(embedding1, embedding2) ==
    LET norm1 == Norm(embedding1)
        norm2 == Norm(embedding2)
    IN  IF norm1 = 0 \/ norm2 = 0 THEN 0
        ELSE IF embedding1.dim # embedding2.dim THEN 0
        ELSE LET dot == embedding1.x * embedding2.x + embedding1.y * embedding2.y
                 similarity == (dot * SimUnit) \div (norm1 * norm2)
             IN  Max(0, Min(SimUnit, similarity))

\* EmbeddingService.calculate_similarity, in millionths.  np.dot of vectors of
\* different lengths raises ValueError, which the method catches: 0.0.
calculate_similarity(embedding1, embedding2) ==
    LET norm1 == Norm(embedding1)
        norm2 == Norm(embedding2)
    IN  IF norm1 = 0 \/ norm2 = 0 THEN 0
        ELSE IF embedding1.dim # embedding2.dim THEN 0
        ELSE LET dot == embedding1.x * embedding2.x + embedding1.y * embedding2.y
                 similarity == (dot * SimUnit) \div (norm1 * norm2)
             IN  Max(0, Min(SimUnit, (similarity + SimUnit) \div 2))

RECURSIVE InsertDescending(_, _)
\* item placed behind every pair whose score is not lower than its own
InsertDescending(sorted, item) ==
    IF sorted = <<>> THEN <<item>>
    ELSE IF Head(sorted)[2] >= item[2]
         THEN <<Head(sorted)>> \o InsertDescending(Tail(sorted), item)
         ELSE <<item>> \o sorted

RECURSIVE InsertAscending(_, _)
InsertAscending(sorted, item) ==
    IF sorted = <<>> THEN <<item>>
    ELSE IF Head(sorted)[2] <= item[2]
         THEN <<Head(sorted)>> \o InsertAscending(Tail(sorted), item)
         ELSE <<item>> \o sorted

RECURSIVE SortAscendingFrom(_, _)
SortAscendingFrom(xs, acc) ==
    IF xs = <<>> THEN acc
    ELSE SortAscendingFrom(Tail(xs), InsertAscending(acc, Head(xs)))

\* an ascending sort, reversed: equal scores come out in reverse input order
SortDescending_reversed(similarities) ==
    LET up == SortAscendingFrom(similarities, <<>>)
    IN  [k \in 1..Len(up) |-> up[Len(up) + 1 - k]]

RECURSIVE SortDescendingFrom(_, _)
SortDescendingFrom(xs, acc) ==
    IF xs = <<>> THEN acc
    ELSE SortDescendingFrom(Tail(xs), InsertDescending(acc, Head(xs)))

\* similarities.sort(key=lambda x: x[1], reverse=True): list.sort is stable,
\* with reverse=True too
SortDescending(similarities) == SortDescendingFrom(similarities, <<>>)

\* EmbeddingService.find_most_similar: pairs (index from 0, score)
find_most_similar(query_embedding, candidate_embeddings, top_k) ==
    IF candidate_embeddings = <<>> THEN <<>>
    ELSE Take(SortDescending([i \in 1..Len(candidate_embeddings) |->
                                <<i - 1, calculate_similarity(query_embedding,
                                                              candidate_embeddings[i])>>]),
              top_k)

-----------------------------------------------------------------------------
(* embedding_service.py: text preprocessing                                *)

max_length == 512

\* a preprocessing that trims the ends and nothing more
_preprocess_text_stripped(text) ==
    IF text = NoneText \/ text = <<>> THEN <<>> ELSE strip(text)

\* EmbeddingService._preprocess_text
_preprocess_text(text) ==
    IF text = NoneText \/ text = <<>> THEN <<>>
    ELSE LET stripped == strip(text)
             collapsed == join(" ", split(stripped))
         IN  IF Len(split(collapsed)) > max_length
             THEN join(" ", Take(split(collapsed), max_length))
             ELSE collapsed

\* not text: the whitespace-only text is taken for text to encode
IsBlank_empty(text) == text = NoneText \/ text = <<>>

\* not text or not text.strip()
IsBlank(text) == text = NoneText \/ text = <<>> \/ strip(text) = <<>>

-----------------------------------------------------------------------------
(* semantic_search.py: the pure steps of the match orchestrator            *)

\* hundredths in one percentage point: relevance is rounded to two decimals
RelUnit == 100

\* the percentage cut to two decimals, not rounded
RoundRelevance_floor(similarity_score) == similarity_score \div (SimUnit \div (100 * RelUnit))

\* round(similarity_score * 100, 2), in hundredths of a point (ties to even)
RoundRelevance(similarity_score) ==
    LET per == SimUnit \div (100 * RelUnit)
        q == similarity_score \div per
        r == similarity_score % per
    IN  IF 2 * r > per THEN q + 1
        ELSE IF 2 * r < per THEN q
        ELSE IF q % 2 = 0 THEN q ELSE q + 1

\* _determine_verdict with the comparisons strict
_determine_verdict_strict(relevance) ==
    IF relevance > 70 * RelUnit THEN "High"
    ELSE IF relevance > 40 * RelUnit THEN "Medium"
    ELSE "Low"

\* SemanticSearchService._determine_verdict; relevance in hundredths of a point
_determine_verdict(relevance) ==
    IF relevance >= 70 * RelUnit THEN "High"
    ELSE IF relevance >= 40 * RelUnit THEN "Medium"
    ELSE "Low"

tech_skills ==
  <<<<"p","y","t","h","o","n">>,
    <<"j","a","v","a">>,
    <<"j","a","v","a","s","c","r","i","p","t">>,
    <<"r","e","a","c","t">>,
    <<"a","n","g","u","l","a","r">>,
    <<"v","u","e">>,
    <<"s","q","l">>,
    <<"m","o","n","g","o","d","b">>,
    <<"p","o","s","t","g","r","e","s","q","l">>,
    <<"m","y","s","q","l">>,
    <<"d","o","c","k","e","r">>,
    <<"k","u","b","e","r","n","e","t","e","s">>,
    <<"a","w","s">>,
    <<"a","z","u","r","e">>,
    <<"g","c","p">>,
    <<"m","a","c","h","i","n","e"," ","l","e","a","r","n","i","n","g">>,
    <<"a","i">>,
    <<"d","a","t","a"," ","s","c","i","e","n","c","e">>,
    <<"t","e","n","s","o","r","f","l","o","w">>,
    <<"p","y","t","o","r","c","h">>,
    <<"s","c","i","k","i","t","-","l","e","a","r","n">>,
    <<"p","a","n","d","a","s">>,
    <<"n","u","m","p","y">>>>

soft_skills ==
  <<<<"c","o","m","m","u","n","i","c","a","t","i","o","n">>,
    <<"l","e","a","d","e","r","s","h","i","p">>,
    <<"t","e","a","m","w","o","r","k">>,
    <<"p","r","o","b","l","e","m"," ","s","o","l","v","i","n","g">>,
    <<"a","n","a","l","y","t","i","c","a","l">>,
    <<"c","r","e","a","t","i","v","e">>,
    <<"a","d","a","p","t","a","b","l","e">>,
    <<"o","r","g","a","n","i","z","e","d">>,
    <<"d","e","t","a","i","l"," ","o","r","i","e","n","t","e","d">>>>

\* the skill loop over the texts as they are, not lowercased
SkillsAnalysis_cased(skills, resume_text, jd_text, high, low) ==
    IF resume_text = NoneText \/ jd_text = NoneText
    THEN [raised |-> TRUE, type |-> "AttributeError"]
    ELSE LET required == {s \in Range(skills) : contains(jd_text, s)}
         IN  [raised |-> FALSE,
              value |-> [s \in required |->
                            IF contains(resume_text, s) THEN high ELSE low]]

\* The loop shared by the two skill analyzers: a dict skill -> score over the
\* catalog skills found in the lowercased job description.  text.lower() on None
\* raises AttributeError.
SkillsAnalysis(skills, resume_text, jd_text, high, low) ==
    IF resume_text = NoneText \/ jd_text = NoneText
    THEN [raised |-> TRUE, type |-> "AttributeError"]
    ELSE LET resume_lower == lower(resume_text)
             jd_lower == lower(jd_text)
             required == {s \in Range(skills) : contains(jd_lower, s)}
         IN  [raised |-> FALSE,
              value |-> [s \in required |->
                            IF contains(resume_lower, s) THEN high ELSE low]]

\* SemanticSearchService._analyze_technical_skills
_analyze_technical_skills(resume_text, jd_text) ==
    SkillsAnalysis(tech_skills, resume_text, jd_text, 85, 20)

\* a soft-skill analysis that scores every required skill 80
_analyze_soft_skills_generous(resume_text, jd_text) ==
    SkillsAnalysis(soft_skills, resume_text, jd_text, 80, 80)

\* SemanticSearchService._analyze_soft_skills
_analyze_soft_skills(resume_text, jd_text) ==
    SkillsAnalysis(soft_skills, resume_text, jd_text, 80, 30)

RECURSIVE LongSentences(_)
LongSentences(pieces) ==
    IF pieces = <<>> THEN <<>>
    ELSE IF Len(strip(Head(pieces))) > 10
         THEN <<strip(Head(pieces))>> \o LongSentences(Tail(pieces))
         ELSE LongSentences(Tail(pieces))

\* _extract_semantic_keywords: jd_sentences[:20]
jd_sentences(jd_text) == Take(LongSentences(split_on(jd_text, ".")), 20)

RECURSIVE AlphaWords(_)
AlphaWords(words) ==
    IF words = <<>> THEN <<>>
    ELSE IF Len(Head(words)) > 3 /\ isalpha(Head(words))
         THEN <<Head(words)>> \o AlphaWords(Tail(words))
         ELSE AlphaWords(Tail(words))

\* _extract_semantic_keywords: key_words[:3] of one sentence
key_words(sentence) == Take(AlphaWords(split(lower(sentence))), 3)

\* hash(word) under the interpreter's hash seed
StrHash(word, hashseed) == (TextHash(word, 1) * (2 * hashseed + 1) + hashseed) % 61

RECURSIVE SetOrder(_, _)
\* the iteration order of a set of strings: by hash
SetOrder(S, hashseed) ==
    IF S = {} THEN <<>>
    ELSE LET first == CHOOSE w \in S :
                        \A u \in S : StrHash(w, hashseed) < StrHash(u, hashseed)
                                     \/ (StrHash(w, hashseed) = StrHash(u, hashseed)
                                         /\ TextHash(w, 1) <= TextHash(u, 1))
         IN  <<first>> \o SetOrder(S \ {first}, hashseed)

\* missing_concepts[:10], duplicates and all
DedupTruncate_list(missing_concepts, hashseed) == Take(missing_concepts, 10)

\* list(set(missing_concepts))[:10]
DedupTruncate(missing_concepts, hashseed) ==
    Take(SetOrder(Range(missing_concepts), hashseed), 10)

\* a fallback that reports no match at all
_fallback_analysis_low ==
    [relevance |-> 0,
     verdict |-> "Low",
     missing_keywords |-> <<>>,
     technical_skills |-> <<>>,
     soft_skills |-> <<>>,
     similarity_score |-> 0,
     analysis_method |-> "fallback"]

\* SemanticSearchService._fallback_analysis
_fallback_analysis ==
    [relevance |-> 50 * RelUnit,
     verdict |-> "Medium",
     missing_keywords |-> <<>>,
     technical_skills |-> <<>>,
     soft_skills |-> <<>>,
     similarity_score |-> SimUnit \div 2,
     analysis_method |-> "fallback"]

-----------------------------------------------------------------------------
(* State                                                                   *)

VARIABLES
    env,                \* what the process was started with; never changes
    model_config,       \* EmbeddingService.model_config
    model_name,         \* EmbeddingService.model_name
    model_key,          \* EmbeddingService.model_key
    model,              \* EmbeddingService.model: None or the loaded model's name
    loads,              \* SentenceTransformer constructions since model was last None
    th,                 \* th[t]: the request thread t, its position and its locals
    ret,                \* ret[t]: what the last operation of thread t returned
    resumes,            \* table resumes: id -> row
    job_descriptions,   \* table job_descriptions: id -> row
    resume_collection,  \* ChromaDB collection "resumes": id -> stored embedding
    jd_collection,      \* ChromaDB collection "job_descriptions"
    analysis_results,   \* table analysis_results: a set of rows
    next_analysis_id,   \* its AUTOINCREMENT counter
    last_insert,        \* the arguments of the latest insert per (resume, jd) pair
    relevance_arg,      \* argument of the latest _determine_verdict call
    verdict_out,        \* and what it returned
    call                \* the latest direct call of calculate_similarity or of the
                        \* skill analyzers: its arguments and what it returned

service == <<model_config, model_name, model_key, model, loads>>
documents == <<resumes, job_descriptions>>
index == <<resume_collection, jd_collection>>
results_table == <<analysis_results, next_analysis_id, last_insert>>
verdict_call == <<relevance_arg, verdict_out, call>>
vars == <<env, service, th, ret, documents, index, results_table, verdict_call>>

-----------------------------------------------------------------------------
(* Inputs                                                                  *)

NumThreads == 2
Threads == 1..NumThreads

\* "Python developer"
ResumeA == <<"P","y","t","h","o","n"," ","d","e","v","e","l","o","p","e","r">>
\* "   "
Blank == <<" "," "," ">>
\* "Python and SQL. Good teamwork. Go."
JdA == <<"P","y","t","h","o","n"," ","a","n","d"," ","S","Q","L","."," ","G","o","o","d"," ","t","e","a","m","w","o","r","k","."," ","G","o",".">>
\* "Kubernetes clusters."
JdB == <<"K","u","b","e","r","n","e","t","e","s"," ","c","l","u","s","t","e","r","s",".">>

\* "Experienced Python developer with SQL and AWS skills"
ResumeE == <<"E","x","p","e","r","i","e","n","c","e","d"," ","P","y","t","h","o","n"," ","d","e","v","e","l","o","p","e","r"," ","w","i","t","h"," ","S","Q","L"," ","a","n","d"," ","A","W","S"," ","s","k","i","l","l","s">>
\* "Looking for a Python developer with SQL, AWS, and Kubernetes experience. Must have strong communication skills."
JdE == <<"L","o","o","k","i","n","g"," ","f","o","r"," ","a"," ","P","y","t","h","o","n"," ","d","e","v","e","l","o","p","e","r"," ","w","i","t","h"," ","S","Q","L",","," ","A","W","S",","," ","a","n","d"," ","K","u","b","e","r","n","e","t","e","s"," ","e","x","p","e","r","i","e","n","c","e","."," ","M","u","s","t"," ","h","a","v","e"," ","s","t","r","o","n","g"," ","c","o","m","m","u","n","i","c","a","t","i","o","n"," ","s","k","i","l","l","s",".">>
\* "Design scalable backend services. Deploy secure cloud systems. Review complex data pipelines. Design robust mobile clients. Mentor junior staff scalable."
JdLong == <<"D","e","s","i","g","n"," ","s","c","a","l","a","b","l","e"," ","b","a","c","k","e","n","d"," ","s","e","r","v","i","c","e","s","."," ","D","e","p","l","o","y"," ","s","e","c","u","r","e"," ","c","l","o","u","d"," ","s","y","s","t","e","m","s","."," ","R","e","v","i","e","w"," ","c","o","m","p","l","e","x"," ","d","a","t","a"," ","p","i","p","e","l","i","n","e","s","."," ","D","e","s","i","g","n"," ","r","o","b","u","s","t"," ","m","o","b","i","l","e"," ","c","l","i","e","n","t","s","."," ","M","e","n","t","o","r"," ","j","u","n","i","o","r"," ","s","t","a","f","f"," ","s","c","a","l","a","b","l","e",".">>

\* a job description of a short piece, 19 sentences without a key word, a 20th
\* with four and a 21st with two
JdMany == <<"t","i","n","y"," ","w","o","r","d","."," ","a","b"," ","c","d"," ","e","f"," ","g","h","."," ","a","b"," ","c","d"," ","e","f"," ","g","h","."," ","a","b"," ","c","d"," ","e","f"," ","g","h","."," ","a","b"," ","c","d"," ","e","f"," ","g","h","."," ","a","b"," ","c","d"," ","e","f"," ","g","h","."," ","a","b"," ","c","d"," ","e","f"," ","g","h","."," ","a","b"," ","c","d"," ","e","f"," ","g","h","."," ","a","b"," ","c","d"," ","e","f"," ","g","h","."," ","a","b"," ","c","d"," ","e","f"," ","g","h","."," ","a","b"," ","c","d"," ","e","f"," ","g","h","."," ","a","b"," ","c","d"," ","e","f"," ","g","h","."," ","a","b"," ","c","d"," ","e","f"," ","g","h","."," ","a","b"," ","c","d"," ","e","f"," ","g","h","."," ","a","b"," ","c","d"," ","e","f"," ","g","h","."," ","a","b"," ","c","d"," ","e","f"," ","g","h","."," ","a","b"," ","c","d"," ","e","f"," ","g","h","."," ","a","b"," ","c","d"," ","e","f"," ","g","h","."," ","a","b"," ","c","d"," ","e","f"," ","g","h","."," ","a","b"," ","c","d"," ","e","f"," ","g","h","."," ","A","l","p","h","a"," ","b","e","-","t","a"," ","g","a","m","m","a"," ","d","e","l","t","a"," ","o","m","e","g","a","."," ","s","i","g","m","a"," ","k","a","p","p","a",".">>

ResumeTexts == {ResumeA, Blank, NoneText}
JdTexts == {JdA, JdB, NoneText}

\* the (resume_text, jd_text) pairs offered to analyze_resume_semantic
TextPairs ==
    {<<ResumeA, JdA>>, <<ResumeA, JdB>>, <<Blank, JdA>>, <<NoneText, JdA>>,
     <<ResumeA, NoneText>>}

\* document ids 1..NumResumes and 1..NumJds exist; NumResumes + 1 and NumJds + 1
\* are ids of no document; 0 stands for an id that is None
NumResumes == 1
NumJds == 1
ResumeIdArgs == 0..(NumResumes + 1)
JdIdArgs == 0..(NumJds + 1)

\* keys offered to switch_model: the catalog's and two that are not in it
SwitchKeys == DOMAIN EMBEDDING_MODELS \cup {"turbo", ""}

\* pretrained weights and interpreter hash seeds considered
MaxWeights == 1
MaxHashSeed == 0

NoVec == np_zeros(0)

IdleThread ==
    [pc |-> "idle", op |-> "none", phase |-> "none",
     resume_text |-> <<>>, jd_text |-> <<>>, resume_id |-> 0, jd_id |-> 0,
     texts |-> <<>>, ge_text |-> <<>>, ge_mode |-> "encode",
     resume_embedding |-> NoVec, jd_embedding |-> NoVec,
     sentences |-> <<>>, missing_concepts |-> <<>>, missing_keywords |-> <<>>,
     todo_resumes |-> <<>>, todo_jds |-> <<>>, doc |-> 0, processed |-> 0,
     query_embedding |-> NoVec, top_k |-> 0,
     started_with |-> None, used |-> {},
     load_failed |-> FALSE, encode_failed |-> FALSE, handoff_failed |-> FALSE,
     db_failed |-> FALSE, caught |-> "none"]

NoReturn == [op |-> "none"]

\* A request starts on an idle thread; a host that is not threaded serves one
\* request at a time, on thread 1.
CanStart(t) ==
    /\ th[t].pc = "idle"
    /\ env.threaded \/ (t = 1 /\ \A u \in Threads : th[u].pc = "idle")

Goto(t, r) ==
    /\ th' = [th EXCEPT ![t] = r]
    /\ UNCHANGED ret

\* a request begins: the previous return value is gone
Begin(t, r) ==
    /\ th' = [th EXCEPT ![t] = r]
    /\ ret' = [ret EXCEPT ![t] = NoReturn]

Finish(t, result) ==
    /\ th' = [th EXCEPT ![t] = IdleThread]
    /\ ret' = [ret EXCEPT ![t] = result]

-----------------------------------------------------------------------------
(* embedding_service.py: generate_embedding, generate_embeddings_batch     *)

\* Entry of generate_embedding(text) called from `phase`: the blank-text test.
GEnter(r, text, phase) ==
    [r EXCEPT !.pc = "ge_check", !.phase = phase, !.ge_text = text,
              !.ge_mode = IF IsBlank(text) THEN "zeros" ELSE "encode"]

\* Entry of generate_embeddings_batch(texts), texts not empty
GEnterBatch(r, texts) ==
    [r EXCEPT !.pc = "ge_check", !.phase = "batch", !.texts = texts,
              !.ge_mode = "encode"]

\* the embeddings of a batch: model.encode(cleaned_texts)
EncodeBatch(name, texts, weights) ==
    [i \in 1..Len(texts) |-> Encode(name, _preprocess_text(texts[i]), weights)]

-----------------------------------------------------------------------------
(* semantic_search.py: analyze_resume_semantic, step by step               *)

AnalyzeReturn(r, value) ==
    [op |-> "analyze", value |-> value, caught |-> r.caught, db_failed |-> r.db_failed,
     resume_text |-> r.resume_text, jd_text |-> r.jd_text,
     resume_id |-> r.resume_id, jd_id |-> r.jd_id,
     started_with |-> r.started_with, used |-> r.used,
     load_failed |-> r.load_failed, encode_failed |-> r.encode_failed,
     handoff_failed |-> r.handoff_failed]

\* _extract_semantic_keywords up to its first generate_embedding call.
\* jd_text.split on None raises AttributeError, which the method catches: [].
EnterKeywords(r) ==
    IF r.jd_text = NoneText
    THEN [r EXCEPT !.pc = "skills", !.missing_keywords = <<>>]
    ELSE LET s == jd_sentences(r.jd_text)
         IN  IF s = <<>>
             THEN [r EXCEPT !.pc = "skills",
                            !.missing_keywords = DedupTruncate(<<>>, env.hashseed)]
             ELSE GEnter([r EXCEPT !.sentences = s, !.missing_concepts = <<>>],
                         s[1], "sentence")

\* a threshold test that lets a similarity of exactly 0.3 through
ContributedTerms_inclusive(similarity, sentence) ==
    IF 10 * similarity <= 3 * SimUnit THEN key_words(sentence) ELSE <<>>

\* what one sentence adds to missing_concepts: `if similarity < 0.3` and the
\* first three key words
ContributedTerms(similarity, sentence) ==
    IF 10 * similarity < 3 * SimUnit THEN key_words(sentence) ELSE <<>>

\* the body of the sentence loop after generate_embedding(sentence) returned
AfterSentence(r, sentence_embedding) ==
    LET similarity == calculate_similarity(sentence_embedding, r.resume_embedding)
        concepts == r.missing_concepts \o ContributedTerms(similarity, Head(r.sentences))
        rest == Tail(r.sentences)
    IN  IF rest = <<>>
        THEN [r EXCEPT !.pc = "skills", !.sentences = rest, !.missing_concepts = concepts,
                       !.missing_keywords = DedupTruncate(concepts, env.hashseed)]
        ELSE GEnter([r EXCEPT !.sentences = rest, !.missing_concepts = concepts],
                    rest[1], "sentence")

\* analyze_resume_semantic after the two embeddings: the hand-off, if ids were given
AfterEmbeddings(r) ==
    IF r.resume_id # 0 THEN [r EXCEPT !.pc = "store_resume"]
    ELSE IF r.jd_id # 0 THEN [r EXCEPT !.pc = "store_jd"]
    ELSE EnterKeywords(r)

AfterStoreResume(r) ==
    IF r.jd_id # 0 THEN [r EXCEPT !.pc = "store_jd"] ELSE EnterKeywords(r)

\* a result that reports no similarity when the hand-off to the index failed
SemanticResult_stored(r, technical, soft) ==
    LET similarity_score == IF r.handoff_failed THEN 0
                            ELSE calculate_similarity(r.resume_embedding, r.jd_embedding)
        relevance == RoundRelevance(similarity_score)
    IN  [relevance |-> relevance,
         verdict |-> _determine_verdict(relevance),
         missing_keywords |-> Take(r.missing_keywords, 10),
         technical_skills |-> technical,
         soft_skills |-> soft,
         similarity_score |-> similarity_score,
         analysis_method |-> "semantic_embedding"]

\* the dict analyze_resume_semantic returns on its semantic path
SemanticResult(r, technical, soft) ==
    LET similarity_score == calculate_similarity(r.resume_embedding, r.jd_embedding)
        relevance == RoundRelevance(similarity_score)
    IN  [relevance |-> relevance,
         verdict |-> _determine_verdict(relevance),
         missing_keywords |-> Take(r.missing_keywords, 10),
         technical_skills |-> technical,
         soft_skills |-> soft,
         similarity_score |-> similarity_score,
         analysis_method |-> "semantic_embedding"]

\* the bulk generation moves on to its next document
BulkAdvance(r, success) ==
    [r EXCEPT !.pc = IF success THEN "status" ELSE "bulk_next",
              !.todo_resumes = IF success \/ r.todo_resumes = <<>> THEN @ ELSE Tail(@),
              !.todo_jds = IF success \/ r.todo_resumes # <<>> THEN @ ELSE Tail(@)]

\* add_*_embedding returned `success` to its caller: generate_embeddings updates
\* the status only after True, _store_*_embedding does not look at the value
AfterAdd(r, success) ==
    IF r.op = "bulk" THEN BulkAdvance(r, success)
    ELSE [r EXCEPT !.pc = "status", !.handoff_failed = @ \/ ~success]

\* collection.add of one embedding: the collection is None without a client
\* (AttributeError); ChromaDB rejects a vector whose dimension is not the
\* collection's and does not overwrite an id it already holds.
CollectionAddOk(collection, embedding) ==
    /\ env.chroma
    /\ \A i \in DOMAIN collection : collection[i].dim = embedding.dim

CollectionAdd(collection, id, embedding) ==
    IF id \in DOMAIN collection THEN collection
    ELSE [i \in DOMAIN collection \cup {id} |->
             IF i = id THEN embedding ELSE collection[i]]

\* a search whose except clause let the exception through
SearchCaught_reraise(r) ==
    [op |-> r.op, raised |-> TRUE, value |-> <<>>, query_failed |-> TRUE,
     load_failed |-> r.load_failed]

\* the except clause of the two search methods: the error is logged, [] returned
SearchCaught(r) ==
    [op |-> r.op, raised |-> FALSE, value |-> <<>>, query_failed |-> TRUE,
     load_failed |-> r.load_failed]

\* generate_embedding / generate_embeddings_batch returned `value` to the call site
OnReturn(t, r, value) ==
    CASE r.phase = "resume" ->
            /\ Goto(t, GEnter([r EXCEPT !.resume_embedding = value], r.jd_text, "jd"))
            /\ UNCHANGED index
      [] r.phase = "jd" ->
            /\ Goto(t, AfterEmbeddings([r EXCEPT !.jd_embedding = value]))
            /\ UNCHANGED index
      [] r.phase = "sentence" ->
            /\ Goto(t, AfterSentence(r, value))
            /\ UNCHANGED index
      [] r.phase \in {"embed", "batch"} ->
            /\ Finish(t, [op |-> r.phase, raised |-> FALSE, value |-> value,
                          text |-> r.ge_text, texts |-> r.texts,
                          load_failed |-> r.load_failed,
                          encode_failed |-> r.encode_failed])
            /\ UNCHANGED index
      [] r.phase = "search" ->
            /\ Goto(t, [r EXCEPT !.pc = "query", !.query_embedding = value])
            /\ UNCHANGED index
      [] r.phase = "add_resume" ->
            /\ Goto(t, AfterAdd(r, CollectionAddOk(resume_collection, value)))
            /\ resume_collection' =
                 IF CollectionAddOk(resume_collection, value)
                 THEN CollectionAdd(resume_collection, r.doc, value)
                 ELSE resume_collection
            /\ UNCHANGED jd_collection
      [] r.phase = "add_jd" ->
            /\ Goto(t, AfterAdd(r, CollectionAddOk(jd_collection, value)))
            /\ jd_collection' =
                 IF CollectionAddOk(jd_collection, value)
                 THEN CollectionAdd(jd_collection, r.doc, value)
                 ELSE jd_collection
            /\ UNCHANGED resume_collection

\* generate_embedding / generate_embeddings_batch raised to the call site
OnRaise(t, r) ==
    /\ UNCHANGED index
    /\ CASE r.phase \in {"resume", "jd"} ->
              Goto(t, [r EXCEPT !.pc = "except", !.caught = r.phase])
         [] r.phase = "sentence" ->
              Goto(t, [r EXCEPT !.pc = "skills", !.missing_keywords = <<>>])
         [] r.phase \in {"embed", "batch"} ->
              Finish(t, [op |-> r.phase, raised |-> TRUE, value |-> <<>>,
                         text |-> r.ge_text, texts |-> r.texts,
                         load_failed |-> r.load_failed,
                         encode_failed |-> r.encode_failed])
         [] r.phase = "search" ->
              Finish(t, SearchCaught(r))
         [] r.phase \in {"add_resume", "add_jd"} ->
              Goto(t, AfterAdd(r, FALSE))

-----------------------------------------------------------------------------
(* Operations of the embedding provider                                    *)

\* generate_embedding(text) called directly
StartEmbed(t, text) ==
    /\ CanStart(t)
    /\ Begin(t, GEnter([IdleThread EXCEPT !.op = "embed", !.started_with = model_name],
                      text, "embed"))
    /\ UNCHANGED <<env, service, documents, index, results_table, verdict_call>>

\* generate_embeddings_batch(texts) called directly: [] for no texts
StartEmbedBatch(t, texts) ==
    /\ CanStart(t)
    /\ IF texts = <<>>
       THEN Finish(t, [op |-> "batch", raised |-> FALSE, value |-> <<>>,
                       text |-> <<>>, texts |-> texts,
                       load_failed |-> FALSE, encode_failed |-> FALSE])
       ELSE Begin(t, GEnterBatch([IdleThread EXCEPT !.op = "batch",
                                                   !.started_with = model_name], texts))
    /\ UNCHANGED <<env, service, documents, index, results_table, verdict_call>>

\* _load_model without its test: the model is constructed on every call
LoadCheck_always(t) ==
    /\ th[t].pc = "ge_check"
    /\ Goto(t, [th[t] EXCEPT !.pc = "ge_load"])
    /\ UNCHANGED <<env, service, documents, index, results_table, verdict_call>>

\* _load_model: the test `if self.model is None`
LoadCheck(t) ==
    /\ th[t].pc = "ge_check"
    /\ Goto(t, [th[t] EXCEPT !.pc = IF model = None THEN "ge_load" ELSE "ge_use"])
    /\ UNCHANGED <<env, service, documents, index, results_table, verdict_call>>

\* _load_model: SentenceTransformer(self.model_name) and the assignment to
\* self.model; a failed load is logged and raised again.
LoadModel(t, ok) ==
    /\ th[t].pc = "ge_load"
    /\ IF ok
       THEN /\ model' = model_name
            /\ loads' = loads + 1
            /\ Goto(t, [th[t] EXCEPT !.pc = "ge_use"])
            /\ UNCHANGED index
       ELSE /\ OnRaise(t, [th[t] EXCEPT !.load_failed = TRUE])
            /\ UNCHANGED <<model, loads>>
    /\ UNCHANGED <<env, model_config, model_name, model_key, documents,
                   results_table, verdict_call>>

\* one zero vector where a list of them is due
ZerosFor_single(r, dimension) ==
    IF r.phase = "batch" THEN <<np_zeros(dimension)>> ELSE np_zeros(dimension)

\* np.zeros(self.get_embedding_dimension()), once for generate_embedding and
\* once per text for generate_embeddings_batch
ZerosFor(r, dimension) ==
    IF r.phase = "batch"
    THEN [i \in 1..Len(r.texts) |-> np_zeros(dimension)]
    ELSE np_zeros(dimension)

\* What follows _load_model.  With text to encode: self.model.encode inside the
\* try; an exception (an encode that fails, or self.model found None) is caught
\* and the zero vector of get_embedding_dimension() is built instead, which
\* enters _load_model again.  With a zero vector to build:
\* self.model.get_sentence_embedding_dimension(), outside any try.
UseModel(t, ok) ==
    LET r == th[t]
    IN  /\ r.pc = "ge_use"
        /\ IF r.ge_mode = "encode"
           THEN IF model = None \/ ~ok
                THEN /\ Goto(t, [r EXCEPT !.pc = "ge_check", !.ge_mode = "zeros",
                                          !.encode_failed = TRUE])
                     /\ UNCHANGED index
                ELSE OnReturn(t, [r EXCEPT !.used = @ \cup {model}],
                              IF r.phase = "batch"
                              THEN EncodeBatch(model, r.texts, env.weights)
                              ELSE Encode(model, _preprocess_text(r.ge_text),
                                          env.weights))
           ELSE /\ ok
                /\ IF model = None
                   THEN OnRaise(t, r)
                   ELSE OnReturn(t, r, ZerosFor(r, ModelDimension(model)))
        /\ UNCHANGED <<env, service, documents, results_table, verdict_call>>

\* switch_model that leaves the cached model in place
SwitchModel_cached(t, key) ==
    LET config == get_embedding_model_config(key, env.default)
    IN  /\ CanStart(t)
        /\ IF config.raised
           THEN /\ Finish(t, [op |-> "switch_model", raised |-> TRUE, key |-> key,
                              type |-> config.type, message |-> config.message])
                /\ UNCHANGED service
           ELSE /\ model_config' = config.value
                /\ model_name' = config.value.name
                /\ model_key' = key
                /\ UNCHANGED <<model, loads>>
                /\ Finish(t, [op |-> "switch_model", raised |-> FALSE, key |-> key,
                              type |-> None, message |-> <<>>])
        /\ UNCHANGED <<env, documents, index, results_table, verdict_call>>

\* switch_model that also marks every document as having no embedding and
\* empties the collections
SwitchModel_reindex(t, key) ==
    LET config == get_embedding_model_config(key, env.default)
        cleared(table) == [i \in DOMAIN table |->
                             [table[i] EXCEPT !.has_embedding = FALSE,
                                              !.embedding_model = None]]
    IN  /\ CanStart(t)
        /\ IF config.raised
           THEN /\ Finish(t, [op |-> "switch_model", raised |-> TRUE, key |-> key,
                              type |-> config.type, message |-> config.message])
                /\ UNCHANGED <<service, documents, index>>
           ELSE /\ model_config' = config.value
                /\ model_name' = config.value.name
                /\ model_key' = key
                /\ model' = None
                /\ loads' = 0
                /\ resumes' = cleared(resumes)
                /\ job_descriptions' = cleared(job_descriptions)
                /\ resume_collection' = <<>>
                /\ jd_collection' = <<>>
                /\ Finish(t, [op |-> "switch_model", raised |-> FALSE, key |-> key,
                              type |-> None, message |-> <<>>])
        /\ UNCHANGED <<env, results_table, verdict_call>>

\* switch_model that falls back to the default model on an unknown key
SwitchModel_fallback(t, key) ==
    LET config == get_embedding_model_config(key, env.default)
        fallback == get_embedding_model_config(None, env.default).value
    IN  /\ CanStart(t)
        /\ IF config.raised
           THEN /\ model_config' = fallback
                /\ model_name' = fallback.name
                /\ model_key' = env.default
                /\ model' = None
                /\ loads' = 0
                /\ Finish(t, [op |-> "switch_model", raised |-> TRUE, key |-> key,
                              type |-> config.type, message |-> config.message])
           ELSE /\ model_config' = config.value
                /\ model_name' = config.value.name
                /\ model_key' = key
                /\ model' = None
                /\ loads' = 0
                /\ Finish(t, [op |-> "switch_model", raised |-> FALSE, key |-> key,
                              type |-> None, message |-> <<>>])
        /\ UNCHANGED <<env, documents, index, results_table, verdict_call>>

\* EmbeddingService.switch_model
SwitchModel(t, key) ==
    LET config == get_embedding_model_config(key, env.default)
    IN  /\ CanStart(t)
        /\ IF config.raised
           THEN /\ Finish(t, [op |-> "switch_model", raised |-> TRUE, key |-> key,
                              type |-> config.type, message |-> config.message])
                /\ UNCHANGED service
           ELSE /\ model_config' = config.value
                /\ model_name' = config.value.name
                /\ model_key' = key
                /\ model' = None
                /\ loads' = 0
                /\ Finish(t, [op |-> "switch_model", raised |-> FALSE, key |-> key,
                              type |-> None, message |-> <<>>])
        /\ UNCHANGED <<env, documents, index, results_table, verdict_call>>

-----------------------------------------------------------------------------
(* Operations of the match orchestrator                                    *)

\* analyze_resume_semantic(resume_text, jd_text, resume_id, jd_id)
StartAnalyze(t, resume_text, jd_text, resume_id, jd_id) ==
    /\ CanStart(t)
    /\ Begin(t, GEnter([IdleThread EXCEPT !.op = "analyze",
                                         !.resume_text = resume_text,
                                         !.jd_text = jd_text,
                                         !.resume_id = resume_id,
                                         !.jd_id = jd_id,
                                         !.started_with = model_name],
                      resume_text, "resume"))
    /\ UNCHANGED <<env, service, documents, index, results_table, verdict_call>>

\* the parameters VectorStore.add_resume_embedding and
\* add_job_description_embedding declare
add_resume_embedding_params == {"resume_id", "text", "metadata"}
add_job_description_embedding_params == {"jd_id", "text", "metadata"}

\* the keyword arguments _store_resume_embedding and _store_jd_embedding pass
store_resume_kwargs == {"resume_id", "text", "embedding", "metadata"}
store_jd_kwargs == {"jd_id", "text", "embedding", "metadata"}

\* a call with a keyword the function does not declare raises TypeError
CallAccepted(params, kwargs) == kwargs \subseteq params

\* VectorStore.add_resume_embedding up to its generate_embedding call
EnterAddResume(r, resume_id, text) ==
    LET r1 == [r EXCEPT !.doc = resume_id, !.phase = "add_resume"]
    IN  IF ~env.chroma THEN AfterAdd(r1, TRUE) ELSE GEnter(r1, text, "add_resume")

\* VectorStore.add_job_description_embedding up to its generate_embedding call
EnterAddJd(r, jd_id, text) ==
    GEnter([r EXCEPT !.doc = jd_id], text, "add_jd")

\* _store_resume_embedding with an except clause that raises the error again
StoreResumeExcept_reraise(r) ==
    [r EXCEPT !.pc = "except", !.caught = "store_resume", !.handoff_failed = TRUE]

\* _store_resume_embedding's except clause: the error is logged, nothing more
StoreResumeExcept(r) ==
    AfterStoreResume([r EXCEPT !.handoff_failed = TRUE])

\* _store_jd_embedding's except clause
StoreJdExcept(r) ==
    EnterKeywords([r EXCEPT !.handoff_failed = TRUE])

\* _store_resume_embedding: the try block, db.get_resume_by_id first
StoreResume(t, db_ok) ==
    LET r == th[t]
    IN  /\ r.pc = "store_resume"
        /\ Goto(t, IF ~db_ok
                   THEN StoreResumeExcept([r EXCEPT !.db_failed = TRUE])
                   ELSE IF r.resume_id \notin DOMAIN resumes
                   THEN AfterStoreResume(r)
                   ELSE IF ~CallAccepted(add_resume_embedding_params, store_resume_kwargs)
                   THEN StoreResumeExcept(r)
                   ELSE EnterAddResume(r, r.resume_id, r.resume_text))
        /\ UNCHANGED <<env, service, documents, index, results_table, verdict_call>>

\* _store_jd_embedding
StoreJd(t, db_ok) ==
    LET r == th[t]
    IN  /\ r.pc = "store_jd"
        /\ Goto(t, IF ~db_ok
                   THEN StoreJdExcept([r EXCEPT !.db_failed = TRUE])
                   ELSE IF r.jd_id \notin DOMAIN job_descriptions
                   THEN EnterKeywords(r)
                   ELSE IF ~CallAccepted(add_job_description_embedding_params,
                                         store_jd_kwargs)
                   THEN StoreJdExcept(r)
                   ELSE EnterAddJd(r, r.jd_id, r.jd_text))
        /\ UNCHANGED <<env, service, documents, index, results_table, verdict_call>>

\* update_resume_embedding_status / update_job_description_embedding_status with
\* self.embedding_service.model_name, after add_*_embedding returned True
Status(t) ==
    LET r == th[t]
        row(table) == [table EXCEPT ![r.doc] = [@ EXCEPT !.has_embedding = TRUE,
                                                        !.embedding_model = model_name]]
    IN  /\ r.pc = "status"
        /\ IF r.phase = "add_resume"
           THEN /\ resumes' = IF r.doc \in DOMAIN resumes THEN row(resumes) ELSE resumes
                /\ UNCHANGED job_descriptions
           ELSE /\ job_descriptions' = IF r.doc \in DOMAIN job_descriptions
                                       THEN row(job_descriptions)
                                       ELSE job_descriptions
                /\ UNCHANGED resumes
        /\ Goto(t, IF r.op = "bulk"
                   THEN [r EXCEPT !.pc = "bulk_next", !.processed = @ + 1,
                                  !.todo_resumes = IF @ = <<>> THEN @ ELSE Tail(@),
                                  !.todo_jds = IF r.todo_resumes # <<>> THEN @
                                               ELSE Tail(@)]
                   ELSE IF r.phase = "add_resume" THEN AfterStoreResume(r)
                   ELSE EnterKeywords(r))
        /\ UNCHANGED <<env, service, index, results_table, verdict_call>>

\* the two skill analyses and the returned dict; an exception here reaches
\* analyze_resume_semantic's own except clause
Skills(t) ==
    LET r == th[t]
        technical == _analyze_technical_skills(r.resume_text, r.jd_text)
        soft == _analyze_soft_skills(r.resume_text, r.jd_text)
    IN  /\ r.pc = "skills"
        /\ IF technical.raised \/ soft.raised
           THEN Goto(t, [r EXCEPT !.pc = "except", !.caught = "skills"])
           ELSE Finish(t, AnalyzeReturn(r, SemanticResult(r, technical.value, soft.value)))
        /\ UNCHANGED <<env, service, documents, index, results_table, verdict_call>>

\* analyze_resume_semantic's except clause: the error is logged and the
\* fallback dict returned
AnalyzeExcept(t) ==
    /\ th[t].pc = "except"
    /\ Finish(t, AnalyzeReturn(th[t], _fallback_analysis))
    /\ UNCHANGED <<env, service, documents, index, results_table, verdict_call>>

-----------------------------------------------------------------------------
(* backend.py: bulk embedding generation; vector_store.py: stored similarity *)

RECURSIVE Descending(_)
\* the ids of S, highest first
Descending(S) ==
    IF S = {} THEN <<>>
    ELSE LET m == CHOOSE x \in S : \A y \in S : y <= x
         IN  <<m>> \o Descending(S \ {m})

\* get_resumes_without_embeddings / get_job_descriptions_without_embeddings
WithoutEmbeddings(table) == Descending({i \in DOMAIN table : ~table[i].has_embedding})

\* row.get('content') is truthy
HasContent(row) == row.content # NoneText /\ row.content # <<>>

\* generate_embeddings: the two queries that open the handler
StartBulk(t) ==
    /\ CanStart(t)
    /\ Begin(t, [IdleThread EXCEPT !.op = "bulk", !.pc = "bulk_next",
                                  !.started_with = model_name,
                                  !.todo_resumes = WithoutEmbeddings(resumes),
                                  !.todo_jds = WithoutEmbeddings(job_descriptions)])
    /\ UNCHANGED <<env, service, documents, index, results_table, verdict_call>>

\* generate_embeddings: the head of the next loop iteration, up to the
\* generate_embedding call inside add_*_embedding; the response after the loops
BulkNext(t) ==
    LET r == th[t]
    IN  /\ r.pc = "bulk_next"
        /\ IF r.todo_resumes # <<>>
           THEN LET id == Head(r.todo_resumes)
                IN  Goto(t, IF HasContent(resumes[id])
                            THEN EnterAddResume(r, id, resumes[id].content)
                            ELSE [r EXCEPT !.todo_resumes = Tail(@)])
           ELSE IF r.todo_jds # <<>>
           THEN LET id == Head(r.todo_jds)
                IN  Goto(t, IF HasContent(job_descriptions[id])
                            THEN EnterAddJd(r, id, job_descriptions[id].content)
                            ELSE [r EXCEPT !.todo_jds = Tail(@)])
           ELSE Finish(t, [op |-> "bulk", processed |-> r.processed])
        /\ UNCHANGED <<env, service, documents, index, results_table, verdict_call>>

\* VectorStore.calculate_resume_jd_similarity.  Without a client the collections
\* are None and .get raises AttributeError, which is caught: 0.0.  `how` records
\* the path that produced the float.
calculate_resume_jd_similarity(resume_id, jd_id) ==
    IF ~env.chroma THEN [value |-> 0, how |-> "error"]
    ELSE IF resume_id \notin DOMAIN resume_collection \/ jd_id \notin DOMAIN jd_collection
    THEN [value |-> 0, how |-> "missing"]
    ELSE LET resume_embedding == resume_collection[resume_id]
             jd_embedding == jd_collection[jd_id]
         IN  [value |-> calculate_similarity(resume_embedding, jd_embedding),
              how |-> IF Norm(resume_embedding) = 0 \/ Norm(jd_embedding) = 0
                      THEN "zero"
                      ELSE IF resume_embedding.dim # jd_embedding.dim THEN "error"
                      ELSE "cosine"]

Compare(t, resume_id, jd_id) ==
    LET answer == calculate_resume_jd_similarity(resume_id, jd_id)
    IN  /\ CanStart(t)
        /\ Finish(t, [op |-> "compare", resume_id |-> resume_id, jd_id |-> jd_id,
                      value |-> answer.value, how |-> answer.how,
                      resume_by |-> IF resume_id \in DOMAIN resume_collection
                                    THEN resume_collection[resume_id].by ELSE None,
                      jd_by |-> IF jd_id \in DOMAIN jd_collection
                                THEN jd_collection[jd_id].by ELSE None])
        /\ UNCHANGED <<env, service, documents, index, results_table, verdict_call>>

-----------------------------------------------------------------------------
(* vector_store.py: the two searches                                       *)

\* the cosine of two stored vectors, in millionths; 0 for a zero vector
Cosine(a, b) ==
    IF Norm(a) = 0 \/ Norm(b) = 0 THEN 0
    ELSE ((a.x * b.x + a.y * b.y) * SimUnit) \div (Norm(a) * Norm(b))

\* collection.query(query_embeddings=[q], n_results=top_k): ChromaDB rejects a
\* query whose dimension is not the collection's; else the top_k nearest
\* entries by cosine distance, as (id, 1 - distance)
QueryAccepted(collection, query_embedding) ==
    \A i \in DOMAIN collection : collection[i].dim = query_embedding.dim

QueryResults(collection, query_embedding, top_k) ==
    LET ids == Descending(DOMAIN collection)
    IN  Take(SortDescending([k \in 1..Len(ids) |->
                               <<ids[k], Cosine(query_embedding, collection[ids[k]])>>]),
             top_k)

\* VectorStore.search_similar_resumes: [] at once without ChromaDB or a client
StartSearchResumes(t, query_text, top_k) ==
    /\ CanStart(t)
    /\ IF ~env.chroma
       THEN Finish(t, [op |-> "search_resumes", raised |-> FALSE, value |-> <<>>,
                       query_failed |-> FALSE, load_failed |-> FALSE])
       ELSE Begin(t, GEnter([IdleThread EXCEPT !.op = "search_resumes",
                                              !.started_with = model_name,
                                              !.top_k = top_k],
                            query_text, "search"))
    /\ UNCHANGED <<env, service, documents, index, results_table, verdict_call>>

\* VectorStore.search_similar_job_descriptions: no such test; the query
\* embedding is generated whether or not there is a collection
StartSearchJds(t, query_text, top_k) ==
    /\ CanStart(t)
    /\ Begin(t, GEnter([IdleThread EXCEPT !.op = "search_jds",
                                          !.started_with = model_name,
                                          !.top_k = top_k],
                       query_text, "search"))
    /\ UNCHANGED <<env, service, documents, index, results_table, verdict_call>>

\* collection.query and the formatting of its results.  The collection is None
\* without a client (AttributeError); a client that fails, or a query of
\* another dimension than the collection's, raises as well: the except clause
\* returns [].
Query(t, ok) ==
    LET r == th[t]
        collection == IF r.op = "search_resumes" THEN resume_collection
                      ELSE jd_collection
    IN  /\ r.pc = "query"
        /\ IF env.chroma /\ ok /\ QueryAccepted(collection, r.query_embedding)
           THEN Finish(t, [op |-> r.op, raised |-> FALSE,
                           value |-> QueryResults(collection, r.query_embedding, r.top_k),
                           query_failed |-> FALSE, load_failed |-> r.load_failed])
           ELSE Finish(t, SearchCaught(r))
        /\ UNCHANGED <<env, service, documents, index, results_table, verdict_call>>

-----------------------------------------------------------------------------
(* database.py: analysis_results                                           *)

MaxInserts == 4

Digits == <<"0", "1", "2", "3", "4", "5", "6", "7", "8", "9">>

RECURSIVE IntToText(_)
\* str(n) for n >= 0
IntToText(n) ==
    IF n < 10 THEN <<Digits[n + 1]>>
    ELSE IntToText(n \div 10) \o <<Digits[(n % 10) + 1]>>

RECURSIVE json_escape(_)
\* the body of a JSON string: quote and backslash are escaped
json_escape(s) ==
    IF s = <<>> THEN <<>>
    ELSE (IF Head(s) \in {"\"", "\\"} THEN <<"\\", Head(s)>> ELSE <<Head(s)>>)
         \o json_escape(Tail(s))

json_dumps_str(s) == <<"\"">> \o json_escape(s) \o <<"\"">>

RECURSIVE JoinItems(_)
\* ', '.join(items)
JoinItems(items) ==
    IF items = <<>> THEN <<>>
    ELSE IF Len(items) = 1 THEN items[1]
    ELSE items[1] \o <<",", " ">> \o JoinItems(Tail(items))

\* json.dumps of a list of strings
json_dumps_list(xs) ==
    <<"[">> \o JoinItems([i \in 1..Len(xs) |-> json_dumps_str(xs[i])]) \o <<"]">>

\* the keys of a skill dict in insertion order, which is catalog order
KeysInOrder(d) == SelectSeq(tech_skills \o soft_skills, LAMBDA k : k \in DOMAIN d)

\* json.dumps of a dict from strings to non-negative integers
json_dumps_dict(d) ==
    LET keys == KeysInOrder(d)
    IN  <<"{">>
        \o JoinItems([i \in 1..Len(keys) |->
                         json_dumps_str(keys[i]) \o <<":", " ">> \o IntToText(d[keys[i]])])
        \o <<"}">>

RECURSIVE ParseString(_, _, _)
\* the JSON string whose opening quote is just before position i
ParseString(text, i, acc) ==
    IF i > Len(text) \/ text[i] = "\"" THEN [value |-> acc, next |-> i + 1]
    ELSE IF text[i] = "\\" /\ i < Len(text)
         THEN ParseString(text, i + 2, Append(acc, text[i + 1]))
         ELSE ParseString(text, i + 1, Append(acc, text[i]))

\* a number that has one digit only
ParseInt_digit(text, i, acc) ==
    IF i <= Len(text) /\ text[i] \in Range(Digits)
    THEN [value |-> (CHOOSE d \in 0..9 : Digits[d + 1] = text[i]), next |-> i + 1]
    ELSE [value |-> acc, next |-> i]

RECURSIVE ParseInt(_, _, _)
\* the decimal number at position i
ParseInt(text, i, acc) ==
    IF i <= Len(text) /\ text[i] \in Range(Digits)
    THEN ParseInt(text, i + 1,
                  10 * acc + (CHOOSE d \in 0..9 : Digits[d + 1] = text[i]))
    ELSE [value |-> acc, next |-> i]

RECURSIVE ParseItems(_, _, _)
\* the strings of a JSON array from position i, where one opens
ParseItems(text, i, acc) ==
    LET item == ParseString(text, i + 1, <<>>)
        items == Append(acc, item.value)
    IN  IF item.next <= Len(text) /\ text[item.next] = ","
        THEN ParseItems(text, item.next + 2, items)
        ELSE items

\* json.loads of what json_dumps_list wrote
json_loads_list(text) ==
    IF text = <<"[", "]">> THEN <<>> ELSE ParseItems(text, 2, <<>>)

RECURSIVE ParseMembers(_, _, _)
\* the members of a JSON object from position i, where a key opens; a key
\* met again replaces the earlier value
ParseMembers(text, i, acc) ==
    LET key == ParseString(text, i + 1, <<>>)
        val == ParseInt(text, key.next + 2, 0)
        members == [k \in DOMAIN acc \cup {key.value} |->
                       IF k = key.value THEN val.value ELSE acc[k]]
    IN  IF val.next <= Len(text) /\ text[val.next] = ","
        THEN ParseMembers(text, val.next + 2, members)
        ELSE members

\* json.loads of what json_dumps_dict wrote
json_loads_dict(text) ==
    IF text = <<"{", "}">> THEN <<>> ELSE ParseMembers(text, 2, <<>>)

\* a job description that names every skill of the two catalogs
CatalogText == JoinItems(tech_skills \o soft_skills)

\* the (resume_id, job_description_id) pairs and contents offered to the table:
\* keyword lists and skill dicts as analyze_resume_semantic builds them
PairIds == 1..2
Payloads ==
    {[relevance_score |-> 25 * RelUnit, verdict |-> "Low",
      missing_keywords |-> key_words(jd_sentences(JdE)[1]),
      technical_skills |-> _analyze_technical_skills(ResumeE, JdE).value,
      soft_skills |-> _analyze_soft_skills(ResumeE, JdE).value],
     [relevance_score |-> 50 * RelUnit, verdict |-> "Medium",
      missing_keywords |-> <<>>, technical_skills |-> <<>>, soft_skills |-> <<>>],
     [relevance_score |-> 90 * RelUnit, verdict |-> "High",
      missing_keywords |->
          DedupTruncate(key_words(jd_sentences(JdLong)[1])
                        \o key_words(jd_sentences(JdLong)[2])
                        \o key_words(jd_sentences(JdLong)[3])
                        \o key_words(jd_sentences(JdLong)[4]), 0),
      technical_skills |-> _analyze_technical_skills(ResumeE, CatalogText).value,
      soft_skills |-> _analyze_soft_skills(ResumeE, CatalogText).value]}

\* a plain INSERT: the new row joins whatever the table holds
InsertRow(rows, row) == rows \cup {row}

\* INSERT OR REPLACE under UNIQUE(resume_id, job_description_id): the rows in
\* conflict with the new one are deleted, then it is inserted
InsertOrReplace(rows, row) ==
    {x \in rows : ~(x.resume_id = row.resume_id
                    /\ x.job_description_id = row.job_description_id)}
    \cup {row}

\* DatabaseManager.insert_analysis_result
insert_analysis_result(resume_id, job_description_id, payload) ==
    /\ next_analysis_id <= MaxInserts
    /\ analysis_results' =
         InsertOrReplace(analysis_results,
                         [id |-> next_analysis_id,
                          resume_id |-> resume_id,
                          job_description_id |-> job_description_id,
                          relevance_score |-> payload.relevance_score,
                          verdict |-> payload.verdict,
                          missing_keywords |-> json_dumps_list(payload.missing_keywords),
                          technical_skills |-> json_dumps_dict(payload.technical_skills),
                          soft_skills |-> json_dumps_dict(payload.soft_skills)])
    /\ next_analysis_id' = next_analysis_id + 1
    /\ last_insert' = [last_insert EXCEPT ![<<resume_id, job_description_id>>] =
                         <<payload>>]
    /\ UNCHANGED <<env, service, th, ret, documents, index, verdict_call>>

-----------------------------------------------------------------------------
(* _determine_verdict called on its own                                    *)

DetermineVerdict ==
    /\ verdict_out = "none"
    /\ verdict_out' = _determine_verdict(relevance_arg)
    /\ UNCHANGED <<env, service, th, ret, documents, index, results_table, relevance_arg,
                   call>>

-----------------------------------------------------------------------------
(* calculate_similarity and the skill analyzers called on their own        *)

\* vectors of two lengths: the zero vector and vectors of integer norm
SimCoords ==
    {<<0, 0>>, <<3, 4>>, <<-3, -4>>, <<6, 8>>, <<4, -3>>, <<-4, 3>>, <<5, 12>>,
     <<12, 5>>, <<0, 5>>, <<-5, 0>>}
SimVectors ==
    {[dim |-> d, x |-> c[1], y |-> c[2], by |-> None] : d \in {384, 768}, c \in SimCoords}

CalculateSimilarity(embedding1, embedding2) ==
    /\ call' = [op |-> "calculate_similarity",
                embedding1 |-> embedding1, embedding2 |-> embedding2,
                out |-> calculate_similarity(embedding1, embedding2)]
    /\ UNCHANGED <<env, service, th, ret, documents, index, results_table,
                   relevance_arg, verdict_out>>

\* find_most_similar called on its own: lists of up to MaxCandidates vectors,
\* two of them equally close to the query, and top_k up to one past that
MaxCandidates == 3
RankQuery == [dim |-> 384, x |-> 3, y |-> 4, by |-> None]
RankVectors ==
    {[dim |-> 384, x |-> c[1], y |-> c[2], by |-> None] :
        c \in {<<3, 4>>, <<6, 8>>, <<4, -3>>}}
CandidateLists == UNION {[1..n -> RankVectors] : n \in 0..MaxCandidates}

FindMostSimilar(candidate_embeddings, top_k) ==
    /\ call' = [op |-> "find_most_similar", query_embedding |-> RankQuery,
                candidate_embeddings |-> candidate_embeddings, top_k |-> top_k,
                out |-> find_most_similar(RankQuery, candidate_embeddings, top_k)]
    /\ UNCHANGED <<env, service, th, ret, documents, index, results_table,
                   relevance_arg, verdict_out>>

\* _preprocess_text called on its own: texts of n one-letter words with
\* whitespace of several kinds before, between and after them, up to
\* MaxShortWords words, and texts of max_length and max_length + 1 words
MaxShortWords == 4
WordAt(k) == <<LowerLetters[(k % 26) + 1]>>

RECURSIVE Spaced(_, _, _)
\* words lo..hi with sep between them
Spaced(lo, hi, sep) ==
    IF lo > hi THEN <<>>
    ELSE IF lo = hi THEN WordAt(lo)
    ELSE LET mid == (lo + hi) \div 2
         IN  Spaced(lo, mid, sep) \o sep \o Spaced(mid + 1, hi, sep)

PreprocessTexts ==
    {lead \o Spaced(1, n, sep) \o trail :
        n \in 0..MaxShortWords,
        lead \in {<<>>, <<" ">>, <<"\n", "\t">>},
        sep \in {<<" ">>, <<" ", " ">>, <<" ", "\n", " ">>},
        trail \in {<<>>, <<" ", "\n">>}}
    \cup {Spaced(1, n, sep) :
            n \in {max_length, max_length + 1}, sep \in {<<" ">>, <<"\t", " ">>}}

PreprocessText(text) ==
    /\ call' = [op |-> "preprocess", text |-> text, out |-> _preprocess_text(text)]
    /\ UNCHANGED <<env, service, th, ret, documents, index, results_table,
                   relevance_arg, verdict_out>>

\* the body of the sentence loop on its own, over similarities around 0.3
ThresholdSimilarities == {299999, 300000, 300001}

SentenceBody(similarity, sentence) ==
    /\ call' = [op |-> "sentence_body", similarity |-> similarity,
                sentence |-> sentence,
                out |-> ContributedTerms(similarity, sentence)]
    /\ UNCHANGED <<env, service, th, ret, documents, index, results_table,
                   relevance_arg, verdict_out>>

\* the conversion of a similarity into relevance and verdict on its own, over
\* similarities around the two thresholds and at the ends
ScoreSimilarities ==
    {0, 49, 51, 399949, 399951, 400000, 699949, 699951, 699996, 700000,
     999949, 999951, SimUnit}

ScoreSimilarity(similarity_score) ==
    LET relevance == RoundRelevance(similarity_score)
    IN  /\ call' = [op |-> "score", similarity_score |-> similarity_score,
                    relevance |-> relevance,
                    verdict |-> _determine_verdict(relevance)]
        /\ UNCHANGED <<env, service, th, ret, documents, index, results_table,
                       relevance_arg, verdict_out>>

SkillTexts == {ResumeA, ResumeE, JdA, JdB, JdE, Blank}

AnalyzeSkills(resume_text, jd_text) ==
    /\ call' = [op |-> "skills", resume_text |-> resume_text, jd_text |-> jd_text,
                technical |-> _analyze_technical_skills(resume_text, jd_text),
                soft |-> _analyze_soft_skills(resume_text, jd_text)]
    /\ UNCHANGED <<env, service, th, ret, documents, index, results_table,
                   relevance_arg, verdict_out>>

-----------------------------------------------------------------------------
(* Initial states and specifications                                       *)

\* The state left by the module-level EmbeddingService(), VectorStore() and
\* DatabaseManager() in a process started with DEFAULT_EMBEDDING_MODEL = default.
InitWith(defaults, threaded, clients, relevances) ==
    /\ env \in [default : defaults, threaded : {threaded}, chroma : clients,
                weights : 0..MaxWeights, hashseed : 0..MaxHashSeed]
    /\ model_config = get_embedding_model_config(None, env.default).value
    /\ model_name = model_config.name
    /\ model_key = "fast"
    /\ model = None
    /\ loads = 0
    /\ th = [t \in Threads |-> IdleThread]
    /\ ret = [t \in Threads |-> NoReturn]
    /\ resumes = [i \in 1..NumResumes |->
                    [content |-> ResumeA, has_embedding |-> FALSE,
                     embedding_model |-> None]]
    /\ job_descriptions = [i \in 1..NumJds |->
                             [content |-> JdA, has_embedding |-> FALSE,
                              embedding_model |-> None]]
    /\ resume_collection = <<>>
    /\ jd_collection = <<>>
    /\ analysis_results = {}
    /\ next_analysis_id = 1
    /\ last_insert = [p \in PairIds \X PairIds |-> <<>>]
    /\ relevance_arg \in relevances
    /\ verdict_out = "none"
    /\ call = [op |-> "none"]

EmbeddingStep(t) ==
    \/ LoadCheck(t)
    \/ \E ok \in BOOLEAN : LoadModel(t, ok)
    \/ \E ok \in BOOLEAN : UseModel(t, ok)

AnalyzeStep(t) ==
    \/ \E db_ok \in BOOLEAN : StoreResume(t, db_ok)
    \/ \E db_ok \in BOOLEAN : StoreJd(t, db_ok)
    \/ Skills(t)
    \/ AnalyzeExcept(t)

ServiceRequest(t) ==
    \/ \E texts \in TextPairs, rid \in ResumeIdArgs, jid \in JdIdArgs :
          StartAnalyze(t, texts[1], texts[2], rid, jid)
    \/ \E text \in ResumeTexts \cup {<<>>} : StartEmbed(t, text)
    \/ \E texts \in {<<>>, <<ResumeA>>, <<Blank, ResumeA>>} : StartEmbedBatch(t, texts)
    \/ \E key \in SwitchKeys : SwitchModel(t, key)

\* The provider and the orchestrator, one request at a time
Init == InitWith({"fast"}, FALSE, {TRUE}, {0})
Next == \E t \in Threads : ServiceRequest(t) \/ EmbeddingStep(t) \/ AnalyzeStep(t)
Spec == Init /\ [][Next]_vars


\* _determine_verdict over every relevance a rounded percentage can be
InitVerdict == InitWith({"fast"}, FALSE, {TRUE}, 0..(100 * RelUnit))
NextVerdict == DetermineVerdict
SpecVerdict == InitVerdict /\ [][NextVerdict]_vars

\* The analysis_results table under repeated insert_analysis_result
\* the table holds nothing that depends on the encoder: one set of weights and
\* one hash seed
InitDb == Init /\ env.weights = 0 /\ env.hashseed = 0
NextDb ==
    \E resume_id \in PairIds, job_description_id \in PairIds, payload \in Payloads :
        insert_analysis_result(resume_id, job_description_id, payload)
SpecDb == InitDb /\ [][NextDb]_vars

\* The provider and the orchestrator under a threaded host (Flask's development
\* server, Streamlit sessions): requests interleave at every step of
\* generate_embedding, and nothing in the service takes a lock.
InitThreaded == InitWith({"fast"}, TRUE, {TRUE}, {0})
ThreadedStep(t) ==
    \/ StartAnalyze(t, ResumeA, JdB, 0, 0)
    \/ SwitchModel(t, "multilingual")
    \/ LoadCheck(t)
    \/ LoadModel(t, TRUE)
    \/ UseModel(t, TRUE)
    \/ Skills(t)
    \/ AnalyzeExcept(t)
NextThreaded == \E t \in Threads : ThreadedStep(t)
SpecThreaded == InitThreaded /\ [][NextThreaded]_vars

\* The index and the document tables: bulk generation, analyses that name
\* stored documents, model switches and stored-pair comparisons, one request
\* at a time, with and without a ChromaDB client.
InitStore == InitWith({"fast"}, FALSE, BOOLEAN, {0})
StoreStep(t) ==
    \/ StartBulk(t)
    \/ BulkNext(t)
    \/ Status(t)
    \/ \E resume_id \in 1..NumResumes, jd_id \in 0..NumJds :
          StartAnalyze(t, ResumeA, JdB, resume_id, jd_id)
    \/ \E key \in {"fast", "multilingual", "balanced"} : SwitchModel(t, key)
    \/ \E resume_id \in 1..NumResumes, jd_id \in 1..NumJds : Compare(t, resume_id, jd_id)
NextStore == \E t \in Threads : StoreStep(t) \/ EmbeddingStep(t) \/ AnalyzeStep(t)
SpecStore == InitStore /\ [][NextStore]_vars


-----------------------------------------------------------------------------
(* Properties                                                              *)

\* C1: for every relevance r in [0,100] the verdict is High exactly when
\* r >= 70, Medium exactly when 40 <= r < 70 and Low exactly when r < 40.
\* (SpecVerdict)
VerdictThresholds ==
    verdict_out # "none" =>
        /\ relevance_arg \in 0..(100 * RelUnit)
        /\ (verdict_out = "High") <=> (relevance_arg >= 70 * RelUnit)
        /\ (verdict_out = "Medium") <=>
               (40 * RelUnit <= relevance_arg /\ relevance_arg < 70 * RelUnit)
        /\ (verdict_out = "Low") <=> (relevance_arg < 40 * RelUnit)

\* a relevance of exactly 70 was given its verdict
VerdictAtSeventy == relevance_arg = 70 * RelUnit /\ verdict_out = "High"

\* the payload the claim spells out: 50.0, Medium, [], {}, {}, 0.5, fallback
FallbackPayload ==
    [relevance |-> 50 * RelUnit,
     verdict |-> "Medium",
     missing_keywords |-> <<>>,
     technical_skills |-> <<>>,
     soft_skills |-> <<>>,
     similarity_score |-> 5 * (SimUnit \div 10),
     analysis_method |-> "fallback"]

\* C2: whenever a step of analyze_resume_semantic raises (the model load fails
\* while a text is embedded, or a text is None and the skill scoring raises),
\* the call returns, and what it returns is exactly the fallback payload.
AnalyzeFallsBack ==
    \A t \in Threads :
        (/\ ret[t].op = "analyze"
         /\ \/ ret[t].caught # "none"
            \/ ret[t].load_failed
            \/ ret[t].resume_text = NoneText
            \/ ret[t].jd_text = NoneText)
        => ret[t].value = FallbackPayload

\* an analyze whose skill scoring raised has returned
AnalyzeCaughtSkills ==
    \E t \in Threads : ret[t].op = "analyze" /\ ret[t].caught = "skills"

\* C3 as written: when the model load or the encode call throws,
\* generate_embedding returns the zero vector and generate_embeddings_batch one
\* zero vector per text; neither ever raises.
EmbedNeverRaises ==
    \A t \in Threads :
        ret[t].op \in {"embed", "batch"} =>
            /\ ~ret[t].raised
            /\ (ret[t].load_failed \/ ret[t].encode_failed) =>
                   ret[t].value = IF ret[t].op = "batch"
                                  THEN [i \in 1..Len(ret[t].texts) |->
                                           np_zeros(ModelDimension(model_name))]
                                  ELSE np_zeros(ModelDimension(model_name))

\* C3 amended: when the encode call throws, generate_embedding returns the zero
\* vector and generate_embeddings_batch one zero vector per text, without
\* raising; when the model load throws, the exception reaches the caller; and
\* nothing else makes either operation raise.
EmbedFailureHandling ==
    \A t \in Threads :
        ret[t].op \in {"embed", "batch"} =>
            /\ ret[t].raised <=> ret[t].load_failed
            /\ (ret[t].encode_failed /\ ~ret[t].load_failed) =>
                   ret[t].value = IF ret[t].op = "batch"
                                  THEN [i \in 1..Len(ret[t].texts) |->
                                           np_zeros(ModelDimension(model_name))]
                                  ELSE np_zeros(ModelDimension(model_name))

\* a batch of two texts whose encode call threw has returned
BatchEncodeFailed ==
    \E t \in Threads :
        /\ ret[t].op = "batch"
        /\ ret[t].encode_failed
        /\ ~ret[t].raised
        /\ Len(ret[t].texts) = 2

\* C4: with several requests in flight and the model not loaded, the load is
\* performed once: no interleaving constructs the model twice.  (SpecThreaded)
SingleLoad == loads <= 1

\* C5: every embedding computed within one analyze_resume_semantic call comes
\* from one model, also when switch_model runs meanwhile.  (SpecThreaded)
OneModelPerAnalyze ==
    \A t \in Threads :
        /\ Cardinality(th[t].used) <= 1
        /\ ret[t].op = "analyze" => Cardinality(ret[t].used) <= 1

\* C6: a comparison of two stored embeddings that different models produced is
\* not answered with an ordinary cosine score.  (SpecStore)
CrossModelRejected ==
    \A t \in Threads :
        (/\ ret[t].op = "compare"
         /\ ret[t].resume_by # None
         /\ ret[t].jd_by # None
         /\ ret[t].resume_by # ret[t].jd_by)
        => ret[t].how # "cosine"

\* C7: after analyze_resume_semantic returned from a call that named an existing
\* resume (job description), with the index available and nothing having
\* failed, the index holds an entry for the document and its status row records
\* the current model.  (SpecStore)
HandoffStores ==
    \A t \in Threads :
        (/\ ret[t].op = "analyze"
         /\ env.chroma
         /\ ret[t].caught = "none"
         /\ ~ret[t].db_failed /\ ~ret[t].load_failed /\ ~ret[t].encode_failed)
        => /\ ret[t].resume_id \in DOMAIN resumes =>
                /\ ret[t].resume_id \in DOMAIN resume_collection
                /\ resumes[ret[t].resume_id].has_embedding
                /\ resumes[ret[t].resume_id].embedding_model = model_name
           /\ ret[t].jd_id \in DOMAIN job_descriptions =>
                /\ ret[t].jd_id \in DOMAIN jd_collection
                /\ job_descriptions[ret[t].jd_id].has_embedding
                /\ job_descriptions[ret[t].jd_id].embedding_model = model_name


\* generate_embedding(text) when the model `name` loads and encode succeeds
EmbeddingOf(name, text) ==
    IF IsBlank(text) THEN np_zeros(ModelDimension(name))
    ELSE Encode(name, _preprocess_text(text), env.weights)

RECURSIVE MissingConcepts(_, _, _)
\* the sentence loop of _extract_semantic_keywords, as one expression
MissingConcepts(sentences, resume_embedding, name) ==
    IF sentences = <<>> THEN <<>>
    ELSE LET sentence_embedding == EmbeddingOf(name, Head(sentences))
             similarity == calculate_similarity(sentence_embedding, resume_embedding)
         IN  (IF 10 * similarity < 3 * SimUnit THEN key_words(Head(sentences)) ELSE <<>>)
             \o MissingConcepts(Tail(sentences), resume_embedding, name)

\* analyze_resume_semantic(resume_text, jd_text) with no ids given, as one
\* expression: what it returns when the model `name` loads and every encode
\* succeeds
PairwiseAnalysis(resume_text, jd_text, name) ==
    IF resume_text = NoneText \/ jd_text = NoneText THEN _fallback_analysis
    ELSE LET resume_embedding == EmbeddingOf(name, resume_text)
             jd_embedding == EmbeddingOf(name, jd_text)
             similarity_score == calculate_similarity(resume_embedding, jd_embedding)
             relevance == RoundRelevance(similarity_score)
             missing == DedupTruncate(MissingConcepts(jd_sentences(jd_text),
                                                      resume_embedding, name),
                                      env.hashseed)
         IN  [relevance |-> relevance,
              verdict |-> _determine_verdict(relevance),
              missing_keywords |-> Take(missing, 10),
              technical_skills |-> _analyze_technical_skills(resume_text, jd_text).value,
              soft_skills |-> _analyze_soft_skills(resume_text, jd_text).value,
              similarity_score |-> similarity_score,
              analysis_method |-> "semantic_embedding"]

\* C8: a failure of the index or of the database during the hand-off inside
\* analyze_resume_semantic is swallowed: whatever ids were given and whatever
\* the hand-off met, the call returns what the same texts return with no ids,
\* with analysis_method semantic_embedding when both texts are strings.
HandoffFailureSwallowed ==
    \A t \in Threads :
        (ret[t].op = "analyze" /\ ~ret[t].load_failed /\ ~ret[t].encode_failed)
        => /\ ret[t].value =
                PairwiseAnalysis(ret[t].resume_text, ret[t].jd_text, ret[t].started_with)
           /\ (/\ ret[t].handoff_failed
               /\ ret[t].resume_text # NoneText
               /\ ret[t].jd_text # NoneText)
              => /\ ret[t].caught = "none"
                 /\ ret[t].value.analysis_method = "semantic_embedding"

\* an analyze that named an existing resume had its call to the index fail, the
\* database having answered, and returned a result with missing keywords in it
HandoffFailedSemantic ==
    \E t \in Threads :
        /\ ret[t].op = "analyze"
        /\ ret[t].handoff_failed
        /\ ~ret[t].db_failed
        /\ ret[t].resume_id \in DOMAIN resumes
        /\ ret[t].value.analysis_method = "semantic_embedding"
        /\ ret[t].value.missing_keywords # <<>>

RowsOf(resume_id, job_description_id) ==
    {x \in analysis_results : /\ x.resume_id = resume_id
                              /\ x.job_description_id = job_description_id}

\* C9: after any sequence of insert_analysis_result calls the table holds at
\* most one row per (resume_id, job_description_id) pair, and that row carries
\* the values of the latest call for the pair.  (SpecDb)
UpsertPerPair ==
    \A resume_id \in PairIds, job_description_id \in PairIds :
        LET rows == RowsOf(resume_id, job_description_id)
            last == last_insert[<<resume_id, job_description_id>>]
        IN  /\ Cardinality(rows) <= 1
            /\ (last = <<>>) <=> (rows = {})
            /\ \A x \in rows :
                  /\ x.relevance_score = last[1].relevance_score
                  /\ x.verdict = last[1].verdict
                  /\ x.missing_keywords = json_dumps_list(last[1].missing_keywords)
                  /\ x.technical_skills = json_dumps_dict(last[1].technical_skills)
                  /\ x.soft_skills = json_dumps_dict(last[1].soft_skills)

\* pair (1, 1) was analysed with one result and then again with another
PairReplaced ==
    /\ next_analysis_id = 3
    /\ \E x \in analysis_results :
          x.id = 2 /\ x.resume_id = 1 /\ x.job_description_id = 1 /\ x.verdict = "High"
    /\ \A x \in analysis_results : x.resume_id = 1 /\ x.job_description_id = 1

\* C10: switch_model with a key outside the catalog raises a configuration
\* error (ValueError) whose message contains the unknown key and every valid
\* key.
UnknownKeyRaises ==
    \A t \in Threads :
        (ret[t].op = "switch_model" /\ ret[t].key \notin DOMAIN EMBEDDING_MODELS)
        => /\ ret[t].raised
           /\ ret[t].type = "ValueError"
           /\ ret[t].key \in Range(ret[t].message)
           /\ \A k \in {"fast", "balanced", "high_quality", "multilingual"} :
                 k \in Range(ret[t].message)

\* switch_model("turbo") has raised
SwitchToTurboRaised ==
    \E t \in Threads :
        ret[t].op = "switch_model" /\ ret[t].key = "turbo" /\ ret[t].raised


\* the models whose encode produced the vectors of a returned value
ProducedBy(r) ==
    IF r.op = "embed" /\ ~r.raised THEN {r.value.by} \ {None}
    ELSE IF r.op = "batch" /\ ~r.raised
    THEN {r.value[i].by : i \in DOMAIN r.value} \ {None}
    ELSE IF r.op = "analyze" THEN r.used
    ELSE {}

\* C11: after switch_model(k) with a valid key k the cached model is gone, and
\* from then on, until the next switch, the service is configured with catalog
\* entry k and every vector an embed call computes comes from that entry's
\* model.
SwitchTakesEffect ==
    /\ model_name = EMBEDDING_MODELS[model_key].name
    /\ model_config = EMBEDDING_MODELS[model_key]
    /\ model \in {None, model_name}
    /\ \A t \in Threads :
          /\ (ret[t].op = "switch_model" /\ ~ret[t].raised) =>
                 /\ model = None
                 /\ model_key = ret[t].key
          /\ ProducedBy(ret[t]) \subseteq {model_name}

\* after a switch to multilingual an embed call returned a vector of that model
EmbeddedAfterSwitch ==
    \E t \in Threads :
        /\ model_key = "multilingual"
        /\ ret[t].op = "embed"
        /\ ProducedBy(ret[t]) = {EMBEDDING_MODELS["multilingual"].name}

\* a step in which switch_model ran to its end
SwitchStep ==
    \E t \in Threads :
        /\ th[t].pc = "idle"
        /\ th'[t].pc = "idle"
        /\ ret'[t].op = "switch_model"

\* C12: switch_model leaves every stored embedding and every document's
\* has_embedding / embedding_model unchanged.  (SpecSwitchStore)
SwitchKeepsStored ==
    [][SwitchStep => UNCHANGED <<resumes, job_descriptions,
                                 resume_collection, jd_collection>>]_vars

\* switch_model has returned while the index holds a resume embedding that the
\* model configured before it produced, and the resume's row names that model
SwitchedWithStored ==
    \E t \in Threads :
        /\ ret[t].op = "switch_model"
        /\ ~ret[t].raised
        /\ 1 \in DOMAIN resume_collection
        /\ resume_collection[1].by \notin {None, model_name}
        /\ resumes[1].has_embedding
        /\ resumes[1].embedding_model = resume_collection[1].by


\* C13: with one request at a time the model is constructed by the first call
\* that needs it and by no later generate_embedding, generate_embeddings_batch
\* or get_embedding_dimension call, as long as switch_model does not run:
\* since the model was last discarded it was constructed at most once, and
\* exactly once if it is cached.
LoadedOnce ==
    /\ loads \in {0, 1}
    /\ (model # None) <=> (loads = 1)

\* an analyze, which embeds at least two texts, returned its semantic result
\* and the model was constructed once
AnalyzedWithOneLoad ==
    \E t \in Threads :
        /\ ret[t].op = "analyze"
        /\ ret[t].caught = "none"
        /\ ret[t].used = {model_name}
        /\ loads = 1

\* C14: generate_embeddings_batch returns at each position the vector that
\* generate_embedding returns for that text alone, also for texts that are
\* empty or whitespace-only.
BatchEqualsSingle ==
    \A t \in Threads :
        (ret[t].op = "batch" /\ ~ret[t].raised /\ ~ret[t].encode_failed)
        => /\ Len(ret[t].value) = Len(ret[t].texts)
           /\ \A i \in DOMAIN ret[t].texts :
                 ret[t].value[i] = EmbeddingOf(model_name, ret[t].texts[i])

NextCalls ==
    \/ \E embedding1 \in SimVectors, embedding2 \in SimVectors :
          CalculateSimilarity(embedding1, embedding2)
    \/ \E resume_text \in SkillTexts, jd_text \in SkillTexts :
          AnalyzeSkills(resume_text, jd_text)
SpecCalls == Init /\ [][NextCalls]_vars

\* analyze_resume_semantic on the two worked texts of the description
\* and on a job description of five sentences, one request at a time
ScenarioStep(t) ==
    \/ StartAnalyze(t, ResumeE, JdE, 0, 0)
    \/ StartAnalyze(t, ResumeA, JdLong, 0, 0)
    \/ EmbeddingStep(t)
    \/ Skills(t)
    \/ AnalyzeExcept(t)
NextScenario == \E t \in Threads : ScenarioStep(t)
SpecScenario == Init /\ [][NextScenario]_vars

IsZeroVector(v) == v.x = 0 /\ v.y = 0

\* C16: calculate_similarity returns exactly 0.0 whenever one of its arguments
\* is the all-zero vector, whatever the other is.  (SpecCalls)
ZeroVectorScoresZero ==
    (/\ call.op = "calculate_similarity"
     /\ IsZeroVector(call.embedding1) \/ IsZeroVector(call.embedding2))
    => call.out = 0

\* the zero vector was compared with a non-zero vector of its length
ZeroComparedWithNonZero ==
    /\ call.op = "calculate_similarity"
    /\ IsZeroVector(call.embedding1)
    /\ ~IsZeroVector(call.embedding2)
    /\ call.embedding1.dim = call.embedding2.dim
    /\ call.out = 0

\* C17: for two non-zero vectors of equal length the score is (cos + 1) / 2,
\* cos = dot / (norm1 * norm2), to the millionth (2 * n * out <= (dot + n) *
\* 10^6 < 2 * n * (out + 1), n = norm1 * norm2), and for any two vectors the
\* score lies in [0, 1].  (SpecCalls)
SimilarityIsRescaledCosine ==
    call.op = "calculate_similarity" =>
        LET a == call.embedding1
            b == call.embedding2
            dot == a.x * b.x + a.y * b.y
            n == Norm(a) * Norm(b)
        IN  /\ call.out \in 0..SimUnit
            /\ (~IsZeroVector(a) /\ ~IsZeroVector(b) /\ a.dim = b.dim) =>
                  /\ Norm(a) * Norm(a) = a.x * a.x + a.y * a.y
                  /\ Norm(b) * Norm(b) = b.x * b.x + b.y * b.y
                  /\ 2 * n * call.out <= (dot + n) * SimUnit
                  /\ (dot + n) * SimUnit < 2 * n * (call.out + 1)

\* two vectors at a right angle were compared: 0.5
OrthogonalCompared ==
    /\ call.op = "calculate_similarity"
    /\ call.embedding1.dim = call.embedding2.dim
    /\ call.embedding1.x = 3 /\ call.embedding1.y = 4
    /\ call.embedding2.x = 4 /\ call.embedding2.y = -3
    /\ 2 * call.out = SimUnit


Python == <<"p","y","t","h","o","n">>
Sql == <<"s","q","l">>
Aws == <<"a","w","s">>
Kubernetes == <<"k","u","b","e","r","n","e","t","e","s">>
Communication == <<"c","o","m","m","u","n","i","c","a","t","i","o","n">>

\* analyze_resume_semantic returned for the worked resume and job description
\* without having caught an exception
ExampleReturned(t) ==
    /\ ret[t].op = "analyze"
    /\ ret[t].resume_text = ResumeE
    /\ ret[t].jd_text = JdE
    /\ ret[t].caught = "none"

\* C18 as stated: for the worked resume and job description the result has
\* python, sql and aws at 85, no technical entry for a catalog term that the
\* job description lacks, and communication at 80.  (SpecScenario)
ExampleCommunicationEighty ==
    \A t \in Threads :
        ExampleReturned(t) =>
            LET technical == ret[t].value.technical_skills
                soft == ret[t].value.soft_skills
            IN  /\ {Python, Sql, Aws} \subseteq DOMAIN technical
                /\ \A s \in {Python, Sql, Aws} : technical[s] = 85
                /\ \A s \in DOMAIN technical : contains(lower(JdE), s)
                /\ Communication \in DOMAIN soft
                /\ soft[Communication] = 80

\* C18, amended: for the worked resume and job description the result has
\* python, sql and aws at 85 and kubernetes, which the resume lacks, at 20 and
\* nothing else in technical_skills; soft_skills has communication alone, at
\* 30, because the resume does not mention it.  (SpecScenario)
ExampleSkillScores ==
    \A t \in Threads :
        ExampleReturned(t) =>
            LET technical == ret[t].value.technical_skills
                soft == ret[t].value.soft_skills
            IN  /\ DOMAIN technical = {Python, Sql, Aws, Kubernetes}
                /\ \A s \in {Python, Sql, Aws} : technical[s] = 85
                /\ technical[Kubernetes] = 20
                /\ DOMAIN soft = {Communication}
                /\ soft[Communication] = 30

\* the worked example returned a semantic result
ExampleAnalyzed ==
    \E t \in Threads :
        /\ ExampleReturned(t)
        /\ ret[t].value.analysis_method = "semantic_embedding"

\* sub occurs in s when letter case is ignored, position by position
OccursIgnoringCase(sub, s) ==
    \E i \in 0..(Len(s) - Len(sub)) :
        \A k \in 1..Len(sub) : lower(<<s[i + k]>>) = lower(<<sub[k]>>)

\* a score map has exactly the catalog skills occurring in the job
\* description, at high when the resume has the skill too and at low otherwise
FollowsJd(map, skills, resume_text, jd_text, high, low) ==
    /\ DOMAIN map = {s \in Range(skills) : OccursIgnoringCase(s, jd_text)}
    /\ \A s \in DOMAIN map :
          map[s] = IF OccursIgnoringCase(s, resume_text) THEN high ELSE low

\* C19: for every resume text and job description text the keys of each skill
\* map are exactly the catalog skills that occur, ignoring case, in the job
\* description; a key scores 85 (technical) or 80 (soft) when the skill also
\* occurs in the resume and 20 or 30 otherwise.  (SpecCalls)
SkillMapsFollowJd ==
    call.op = "skills" =>
        /\ ~call.technical.raised
        /\ ~call.soft.raised
        /\ FollowsJd(call.technical.value, tech_skills,
                     call.resume_text, call.jd_text, 85, 20)
        /\ FollowsJd(call.soft.value, soft_skills,
                     call.resume_text, call.jd_text, 80, 30)

\* the analyzers ran on texts with capital letters: one technical skill found
\* in both, one in the job description alone, and a soft skill the resume lacks
SkillsScoredBothWays ==
    /\ call.op = "skills"
    /\ call.resume_text = ResumeE
    /\ call.jd_text = JdE
    /\ call.technical.value[Python] = 85
    /\ call.technical.value[Kubernetes] = 20
    /\ call.soft.value[Communication] = 30

\* a list of at most 10 terms, none of them twice
AtMostTenDistinct(terms) ==
    /\ Len(terms) <= 10
    /\ \A i \in 1..Len(terms), j \in 1..Len(terms) : terms[i] = terms[j] => i = j

\* C20: the list _extract_semantic_keywords returns, and the missing_keywords
\* of every result of analyze_resume_semantic, has at most 10 terms and no
\* term twice.  (SpecScenario)
MissingKeywordsBounded ==
    \A t \in Threads :
        /\ th[t].pc = "skills" => AtMostTenDistinct(th[t].missing_keywords)
        /\ ret[t].op = "analyze" => AtMostTenDistinct(ret[t].value.missing_keywords)

\* the sentence loop collected more than 10 words, one of them twice, and
\* 10 terms were returned
ConceptsTruncated ==
    \E t \in Threads :
        /\ th[t].pc = "skills"
        /\ Len(th[t].missing_concepts) > 10
        /\ Cardinality(Range(th[t].missing_concepts)) < Len(th[t].missing_concepts)
        /\ Len(th[t].missing_keywords) = 10


\* bulk generation and switch_model alone, requests served one at a time by
\* the first worker
SwitchStoreStep(t) ==
    \/ StartBulk(t)
    \/ BulkNext(t)
    \/ Status(t)
    \/ EmbeddingStep(t)
    \/ \E key \in {"fast", "multilingual"} : SwitchModel(t, key)
NextSwitchStore == \E t \in {1} : SwitchStoreStep(t)
SpecSwitchStore == InitStore /\ [][NextSwitchStore]_vars


\* analyze_resume_semantic called again and again on two workers of a threaded
\* host, by requests that do not overlap: a request starts when every worker
\* is idle, so ret holds what the latest call on each worker returned
RepeatStep(t) ==
    \/ /\ \A u \in Threads : th[u].pc = "idle"
       /\ \/ \E resume_id \in 0..1 : StartAnalyze(t, ResumeA, JdB, resume_id, 0)
          \/ \E key \in {"fast", "multilingual"} : SwitchModel(t, key)
    \/ EmbeddingStep(t)
    \/ \E db_ok \in BOOLEAN : StoreResume(t, db_ok)
    \/ Skills(t)
    \/ AnalyzeExcept(t)
NextRepeat == \E t \in {1, 2} : RepeatStep(t)
SpecRepeat == InitThreaded /\ [][NextRepeat]_vars

\* two calls of analyze_resume_semantic returned, for the same texts under the
\* same configured model
SameCall(t, u) ==
    /\ ret[t].op = "analyze"
    /\ ret[u].op = "analyze"
    /\ ret[t].resume_text = ret[u].resume_text
    /\ ret[t].jd_text = ret[u].jd_text
    /\ ret[t].started_with = ret[u].started_with

SameScores(t, u) ==
    /\ ret[t].value.relevance = ret[u].value.relevance
    /\ ret[t].value.verdict = ret[u].value.verdict
    /\ ret[t].value.similarity_score = ret[u].value.similarity_score

\* the model loaded and encoded without error all through the call
EmbeddedCleanly(t) ==
    /\ ~ret[t].load_failed
    /\ ~ret[t].encode_failed
    /\ ret[t].caught = "none"

get_analysis_results(resume_id, job_description_id) ==
    {[x EXCEPT !.missing_keywords = json_loads_list(@),
               !.technical_skills = json_loads_dict(@),
               !.soft_skills = json_loads_dict(@)] :
        x \in {y \in analysis_results :
                  /\ y.resume_id = resume_id
                  /\ y.job_description_id = job_description_id
                  /\ y.resume_id \in DOMAIN resumes
                  /\ y.job_description_id \in DOMAIN job_descriptions}}

\* C22: a missing_keywords list and the technical_skills / soft_skills dicts
\* stored by insert_analysis_result for an existing resume and job description
\* come back from get_analysis_results equal to what was stored: the same
\* list, the same keys with the same values.  (SpecDb)
JsonRoundTrip ==
    \A resume_id \in DOMAIN resumes, job_description_id \in DOMAIN job_descriptions :
        LET last == last_insert[<<resume_id, job_description_id>>]
            rows == get_analysis_results(resume_id, job_description_id)
        IN  last # <<>> =>
                /\ Cardinality(rows) = 1
                /\ \A x \in rows :
                      /\ x.missing_keywords = last[1].missing_keywords
                      /\ x.technical_skills = last[1].technical_skills
                      /\ DOMAIN x.technical_skills = DOMAIN last[1].technical_skills
                      /\ x.soft_skills = last[1].soft_skills

\* a result with ten keywords and every skill of the catalogs was stored for
\* resume 1 and job description 1 and has been read back
FullResultStored ==
    /\ last_insert[<<1, 1>>] # <<>>
    /\ Len(last_insert[<<1, 1>>][1].missing_keywords) = 10
    /\ Cardinality(DOMAIN last_insert[<<1, 1>>][1].technical_skills) = Len(tech_skills)
    /\ \E x \in get_analysis_results(1, 1) :
          /\ Len(x.missing_keywords) = 10
          /\ x.technical_skills[Python] = 85
          /\ x.technical_skills[Kubernetes] = 20


\* find_most_similar over its arguments
NextRank ==
    \E candidate_embeddings \in CandidateLists, top_k \in 0..(MaxCandidates + 1) :
        FindMostSimilar(candidate_embeddings, top_k)
SpecRank == Init /\ [][NextRank]_vars

\* C23: for every candidate list and top_k >= 0 find_most_similar returns
\* min(top_k, number of candidates) pairs (index, score), each the score of
\* the candidate at that index, in descending score order with equal scores
\* in input order, and no candidate left out ranks before one returned.
\* (SpecRank)
TopKStableDescending ==
    call.op = "find_most_similar" =>
        LET out == call.out
            n == Len(call.candidate_embeddings)
            score(i) == calculate_similarity(call.query_embedding,
                                             call.candidate_embeddings[i + 1])
            before(p, q) == p[2] > q[2] \/ (p[2] = q[2] /\ p[1] < q[1])
        IN  /\ Len(out) = Min(call.top_k, n)
            /\ \A k \in 1..Len(out) :
                  /\ out[k][1] \in 0..(n - 1)
                  /\ out[k][2] = score(out[k][1])
            /\ \A k \in 1..(Len(out) - 1) : before(out[k], out[k + 1])
            /\ \A i \in 0..(n - 1) :
                  (\A k \in 1..Len(out) : out[k][1] # i)
                  => \A k \in 1..Len(out) : before(out[k], <<i, score(i)>>)

\* three candidates were ranked, the two closest with the same score, and the
\* top two were asked for
TiedCandidatesRanked ==
    /\ call.op = "find_most_similar"
    /\ Len(call.candidate_embeddings) = 3
    /\ call.top_k = 2
    /\ Len(call.out) = 2
    /\ call.out[1][2] = call.out[2][2]
    /\ call.out[1][1] = 1
    /\ call.out[2][1] = 2


\* The two searches and analyze_resume_semantic, with and without a ChromaDB
\* client, over an index that bulk generation may have filled
SearchStep(t) ==
    \/ \E top_k \in 1..2 : StartSearchResumes(t, JdA, top_k)
    \/ \E top_k \in 1..2 : StartSearchJds(t, ResumeA, top_k)
    \/ \E ok \in BOOLEAN : Query(t, ok)
    \/ \E resume_id \in 0..1 : StartAnalyze(t, ResumeA, JdB, resume_id, 0)
    \/ \E db_ok \in BOOLEAN : StoreResume(t, db_ok)
    \/ Skills(t)
    \/ AnalyzeExcept(t)
    \/ StartBulk(t)
    \/ BulkNext(t)
    \/ Status(t)
    \/ EmbeddingStep(t)
NextSearch == \E t \in {1} : SearchStep(t)
SpecSearch == InitStore /\ [][NextSearch]_vars

\* C24: when the vector index is unavailable (no client, or a client that
\* fails) search_similar_resumes and search_similar_job_descriptions return an
\* empty list without raising, and analyze_resume_semantic returns what it
\* returns with an index available: the pairwise analysis of its two texts.
\* (SpecSearch)
SearchDegrades ==
    \A t \in Threads :
        /\ (/\ ret[t].op \in {"search_resumes", "search_jds"}
            /\ ~env.chroma \/ ret[t].query_failed)
           => (~ret[t].raised /\ ret[t].value = <<>>)
        /\ (ret[t].op = "analyze" /\ ~ret[t].load_failed /\ ~ret[t].encode_failed)
           => ret[t].value =
                PairwiseAnalysis(ret[t].resume_text, ret[t].jd_text, ret[t].started_with)

\* with no client, the job description search generated its query embedding,
\* met the missing collection and returned
JdSearchWithoutClient ==
    \E t \in Threads :
        /\ ~env.chroma
        /\ ret[t].op = "search_jds"
        /\ ret[t].query_failed
        /\ ~ret[t].load_failed
        /\ model # None

\* with a client and a filled index the resume search returns an entry
ResumeSearchFound ==
    \E t \in Threads :
        /\ env.chroma
        /\ ret[t].op = "search_resumes"
        /\ Len(ret[t].value) = 1


\* _preprocess_text over its argument
NextPreprocess == \E text \in PreprocessTexts : PreprocessText(text)
SpecPreprocess == Init /\ [][NextPreprocess]_vars

\* C25: for every text of n whitespace-separated words _preprocess_text
\* returns the first min(n, 512) of them joined by single spaces: no
\* whitespace at either end, no whitespace but single spaces between words,
\* and the empty string for an empty or whitespace-only text.  (SpecPreprocess)
PreprocessKeepsFirstWords ==
    call.op = "preprocess" =>
        LET out == call.out
            words == split(call.text)
            kept == Take(words, Min(Len(words), 512))
        IN  /\ split(out) = kept
            /\ out = join(" ", kept)
            /\ words = <<>> => out = <<>>
            /\ out # <<>> => (out[1] \notin Whitespace /\ out[Len(out)] \notin Whitespace)
            /\ \A i \in 1..(Len(out) - 1) :
                  out[i] \in Whitespace => (out[i] = " " /\ out[i + 1] \notin Whitespace)

\* a text of 513 words separated by tab and space came back as its first 512
\* words
LongTextTruncated ==
    /\ call.op = "preprocess"
    /\ Len(split(call.text)) = 513
    /\ call.text[2] = "\t"
    /\ Len(split(call.out)) = 512
    /\ Len(call.out) = 1023


\* analyze_resume_semantic on job descriptions of 5 and of 21 sentences, and
\* the body of the sentence loop at similarities around the threshold
ConceptStep(t) ==
    \/ StartAnalyze(t, Blank, JdMany, 0, 0)
    \/ StartAnalyze(t, ResumeE, JdLong, 0, 0)
    \/ EmbeddingStep(t)
    \/ Skills(t)
    \/ AnalyzeExcept(t)
NextConcepts ==
    \/ \E t \in {1} : ConceptStep(t)
    \/ \E similarity \in ThresholdSimilarities :
          SentenceBody(similarity, jd_sentences(JdMany)[20])
SpecConcepts == Init /\ [][NextConcepts]_vars

\* a lowercased, purely alphabetic word of more than 3 characters
IsKeyTerm(w) == Len(w) > 3 /\ isalpha(w) /\ lower(w) = w

\* term is among the first three key terms of the lowercased sentence
AmongFirstThree(term, sentence) ==
    LET words == split(lower(sentence))
    IN  /\ IsKeyTerm(term)
        /\ \E p \in 1..Len(words) :
              /\ words[p] = term
              /\ Cardinality({q \in 1..(p - 1) : IsKeyTerm(words[q])}) < 3

\* the period-separated pieces of jd_text of stripped length over 10 that are
\* among the first 20 of their kind, by position
EligiblePieces(jd_text) ==
    LET pieces == split_on(jd_text, ".")
        long == {i \in 1..Len(pieces) : Len(strip(pieces[i])) > 10}
    IN  {i \in long : Cardinality({j \in long : j <= i}) <= 20}

\* term comes from a sentence the extractor considers, one whose similarity to
\* the resume embedding was below 0.3 (0.0 where the encode failed)
TermExplained(term, r) ==
    LET pieces == split_on(r.jd_text, ".")
        resume_embedding == EmbeddingOf(r.started_with, r.resume_text)
    IN  \E i \in EligiblePieces(r.jd_text) :
           /\ AmongFirstThree(term, pieces[i])
           /\ \/ r.encode_failed
              \/ 10 * calculate_similarity(EmbeddingOf(r.started_with, strip(pieces[i])),
                                           resume_embedding) < 3 * SimUnit

\* C26: every term the concept gap extractor collects or returns is a
\* lowercased alphabetic word of more than 3 characters among the first 3 such
\* words of a job description sentence of stripped length over 10, one of the
\* first 20 of these, whose similarity to the resume embedding is strictly
\* below 0.3; at a similarity of 0.3 or more a sentence contributes nothing.
\* (SpecConcepts)
TermsComeFromGaps ==
    /\ \A t \in Threads :
          /\ (th[t].op = "analyze" /\ th[t].pc = "skills")
             => \A term \in Range(th[t].missing_concepts) \cup Range(th[t].missing_keywords) :
                   TermExplained(term, th[t])
          /\ ret[t].op = "analyze"
             => \A term \in Range(ret[t].value.missing_keywords) :
                   TermExplained(term, ret[t])
    /\ call.op = "sentence_body"
       => /\ 10 * call.similarity >= 3 * SimUnit => call.out = <<>>
          /\ \A term \in Range(call.out) : AmongFirstThree(term, call.sentence)

\* the job description of 21 sentences was analysed with every encode
\* succeeding and three terms came back, while the loop body has just been
\* given a similarity of exactly 0.3
TwentyFirstSentenceLeftOut ==
    \E t \in Threads :
        /\ ret[t].op = "analyze"
        /\ ret[t].jd_text = JdMany
        /\ ~ret[t].encode_failed
        /\ Len(ret[t].value.missing_keywords) = 3
        /\ call.op = "sentence_body"
        /\ call.similarity = 300000


\* The provider under every value of EMBEDDING_MODEL that names a catalog
\* entry: switch_model with keys of the catalog, keys outside it and None, and
\* generate_embedding in between
InitConfig == InitWith(DOMAIN EMBEDDING_MODELS, FALSE, {TRUE}, {0})
ConfigStep(t) ==
    \/ \E key \in SwitchKeys \cup {None} : SwitchModel(t, key)
    \/ StartEmbed(t, ResumeA)
    \/ EmbeddingStep(t)
NextConfig == \E t \in Threads : ConfigStep(t)
SpecConfig == InitConfig /\ [][NextConfig]_vars

\* a step in which switch_model raised
FailedSwitchStep ==
    \E t \in Threads :
        /\ th[t].pc = "idle"
        /\ th'[t].pc = "idle"
        /\ ret'[t].op = "switch_model"
        /\ ret'[t].raised

\* C27: a switch_model call that fails on an unknown key changes nothing:
\* model_key, model_name, model_config and the cached model are after the call
\* what they were before it.  (SpecConfig)
FailedSwitchChangesNothing ==
    [][FailedSwitchStep => UNCHANGED <<model_config, model_name, model_key, model, loads>>]_vars

\* switch_model has raised while the multilingual model, switched to earlier
\* and loaded since, is still configured and cached
FailedSwitchKeptModel ==
    \E t \in Threads :
        /\ ret[t].op = "switch_model"
        /\ ret[t].raised
        /\ model_key = "multilingual"
        /\ model = EMBEDDING_MODELS["multilingual"].name

\* C29: at every moment, from construction on and across successful and
\* failed switch_model calls, model_key names a catalog entry and model_config
\* and model_name are that entry's.  (SpecConfig)
KeyNamesModel ==
    /\ model_key \in DOMAIN EMBEDDING_MODELS
    /\ model_config = EMBEDDING_MODELS[model_key]
    /\ model_name = EMBEDDING_MODELS[model_key].name


\* analyze_resume_semantic on texts that lead to semantic and to fallback
\* results, and the conversion of a similarity into relevance and verdict
ScoreStep(t) ==
    \/ \E texts \in {<<ResumeA, JdA>>, <<ResumeA, JdB>>, <<ResumeA, NoneText>>} :
          StartAnalyze(t, texts[1], texts[2], 0, 0)
    \/ EmbeddingStep(t)
    \/ Skills(t)
    \/ AnalyzeExcept(t)
NextScore ==
    \/ \E t \in {1} : ScoreStep(t)
    \/ \E similarity_score \in ScoreSimilarities : ScoreSimilarity(similarity_score)
SpecScore == Init /\ [][NextScore]_vars

\* relevance (hundredths of a point) is similarity (millionths) times 100
\* rounded to two decimals, lies in [0, 100], and verdict is its threshold
\* verdict
ScoredByRelevance(similarity_score, relevance, verdict) ==
    /\ relevance \in 0..(100 * RelUnit)
    /\ 100 * relevance - similarity_score \in -50..50
    /\ verdict = (IF relevance >= 7000 THEN "High"
                  ELSE IF relevance >= 4000 THEN "Medium" ELSE "Low")

\* C28 as stated: in every result of analyze, semantic or fallback, relevance
\* is similarity_score * 100 rounded to two decimals, in [0, 100], verdict is
\* the threshold verdict of relevance, and High comes only with a
\* similarity_score of at least 0.7.  (SpecScore)
HighOnlyFromSeventy ==
    /\ \A t \in Threads :
          ret[t].op = "analyze" =>
              /\ ScoredByRelevance(ret[t].value.similarity_score,
                                   ret[t].value.relevance, ret[t].value.verdict)
              /\ ret[t].value.verdict = "High"
                 => ret[t].value.similarity_score >= 700000
    /\ call.op = "score" =>
          /\ ScoredByRelevance(call.similarity_score, call.relevance, call.verdict)
          /\ call.verdict = "High" => call.similarity_score >= 700000

\* C28, amended: in every result of analyze, semantic or fallback, relevance
\* is similarity_score * 100 rounded to two decimals, in [0, 100], and verdict
\* is the threshold verdict of relevance; High comes only with a
\* similarity_score of at least 0.69995, whose relevance rounds to 70.0.
\* (SpecScore)
HighOnlyFromRoundedSeventy ==
    /\ \A t \in Threads :
          ret[t].op = "analyze" =>
              /\ ScoredByRelevance(ret[t].value.similarity_score,
                                   ret[t].value.relevance, ret[t].value.verdict)
              /\ ret[t].value.verdict = "High"
                 => ret[t].value.similarity_score >= 699950
    /\ call.op = "score" =>
          /\ ScoredByRelevance(call.similarity_score, call.relevance, call.verdict)
          /\ call.verdict = "High" => call.similarity_score >= 699950

\* a similarity of 0.699996 was converted: relevance 70.0 and High, while a
\* fallback result stands returned
RoundedUpToHigh ==
    /\ call.op = "score"
    /\ call.similarity_score = 699996
    /\ call.relevance = 7000
    /\ call.verdict = "High"
    /\ \E t \in Threads :
          ret[t].op = "analyze" /\ ret[t].value.analysis_method = "fallback"


\* a document row whose flag is set has an entry in its collection, produced
\* by the model the row records
FlagBacked(table, collection) ==
    \A i \in DOMAIN table :
        table[i].has_embedding =>
            /\ i \in DOMAIN collection
            /\ collection[i].by = table[i].embedding_model

\* C30: once bulk generation (or an analyze with ids) has run and no request is
\* under way, every resume and job description whose has_embedding flag is set
\* has an embedding in the vector index, produced by the model recorded in
\* embedding_model, with or without a ChromaDB client.  (SpecStore)
FlaggedMeansIndexed ==
    (\A t \in Threads : th[t].pc = "idle") =>
        /\ FlagBacked(resumes, resume_collection)
        /\ FlagBacked(job_descriptions, jd_collection)

====
